---- MODULE Spec2Model ----
(***************************************************************************)
(* Model of the voicevox_core Synthesizer facade                            *)
(* (crates/voicevox_core/src/voice_synthesizer.rs) and of the C API glue    *)
(* around it (crates/voicevox_core_c_api/src/{helpers,c_impls}.rs).         *)
(*                                                                         *)
(* The facade delegates to the inference core / synthesis engine.  The     *)
(* registry kept by the inference core (model table and style index) is    *)
(* modelled after the specification's section 4.1; those definitions are   *)
(* marked "registry" below.                                                *)
(***************************************************************************)
EXTENDS Integers, Sequences, FiniteSets, TLC

\* ---------------------------------------------------------------- bounds
\* StyleId is a u32; the model uses the ids 0..MaxStyleId.
MaxStyleId == 4

StyleIds == 0..MaxStyleId

\* ------------------------------------------------------ voice model files
\* VoiceModel objects a caller can hold.  "A" and "A2" are two archives that
\* carry the same model id with different metadata.
VoiceModels == {"A", "A2", "B", "C"}

NoModel == "none"

\* VoiceModel::id
ModelId(m) ==
  CASE m = "A"  -> "m1"
    [] m = "A2" -> "m1"
    [] m = "B"  -> "m2"
    [] m = "C"  -> "m3"

\* model ids a caller can name; "m9" belongs to no archive
VoiceModelIds == {"m1", "m2", "m3", "m9"}

\* VoiceModel::metas, as the set of <<speaker, style id>> it lists
ModelMetas(m) ==
  CASE m = "A"  -> {<<"sp1", 0>>, <<"sp1", 1>>}
    [] m = "A2" -> {<<"sp1", 0>>}
    [] m = "B"  -> {<<"sp2", 1>>, <<"sp2", 2>>}
    [] m = "C"  -> {<<"sp3", 3>>}

ModelStyles(m) == {p[2] : p \in ModelMetas(m)}

\* the models InferenceCore loads eagerly when load_all_models is set
DefaultModels == {"A"}

Callers == {"c1", "c2"}

\* -------------------------------------------------------------- results
Ok == [kind |-> "Ok", context |-> "-"]

Err(k) == [kind |-> k, context |-> "-"]

LoadModelErr(ctx) == [kind |-> "LoadModel", context |-> ctx]

NoResult == [kind |-> "none", context |-> "-"]

\* a successful call and the value it returns
OkValue(v) == [kind |-> "Ok", context |-> "-", value |-> v]

\* CApiError::RustApi(#[from] voicevox_core::Error): the `?` conversion
RustApi(r) ==
  IF r.kind = "Ok" THEN [tag |-> "Ok", err |-> r]
                   ELSE [tag |-> "RustApi", err |-> r]

\* a C API error that does not come from the core
CApiOnly(t) == [tag |-> t, err |-> NoResult]

into_result_code_swapped(result) ==
  CASE result.tag = "Ok" -> "VOICEVOX_RESULT_OK"
    [] result.tag = "InvalidUtf8Input" -> "VOICEVOX_RESULT_INVALID_UTF8_INPUT_ERROR"
    [] result.tag = "InvalidAudioQuery" -> "VOICEVOX_RESULT_INVALID_AUDIO_QUERY_ERROR"
    [] result.tag = "InvalidAccentPhrase" -> "VOICEVOX_RESULT_INVALID_ACCENT_PHRASE_ERROR"
    [] result.tag = "InvalidUuid" -> "VOICEVOX_RESULT_INVALID_UUID_ERROR"
    [] result.tag = "RustApi" ->
       CASE result.err.kind = "NotLoadedOpenjtalkDict" -> "VOICEVOX_RESULT_NOT_LOADED_OPENJTALK_DICT_ERROR"
         [] result.err.kind = "GpuSupport" -> "VOICEVOX_RESULT_GPU_SUPPORT_ERROR"
         [] result.err.kind = "LoadModel" ->
           (CASE result.err.context = "OpenZipFile" -> "VOICEVOX_RESULT_OPEN_ZIP_FILE_ERROR"
              [] result.err.context = "ReadZipEntry" -> "VOICEVOX_RESULT_READ_ZIP_ENTRY_ERROR"
              [] result.err.context = "ModelAlreadyLoaded" -> "VOICEVOX_RESULT_STYLE_ALREADY_LOADED_ERROR"
              [] result.err.context = "StyleAlreadyLoaded" -> "VOICEVOX_RESULT_MODEL_ALREADY_LOADED_ERROR"
              [] result.err.context = "InvalidModelData" -> "VOICEVOX_RESULT_INVALID_MODEL_DATA_ERROR")
         [] result.err.kind = "GetSupportedDevices" -> "VOICEVOX_RESULT_GET_SUPPORTED_DEVICES_ERROR"
         [] result.err.kind = "InvalidStyleId" -> "VOICEVOX_RESULT_UNLOADED_MODEL_ERROR"
         [] result.err.kind = "InvalidModelId" -> "VOICEVOX_RESULT_INVALID_STYLE_ID_ERROR"
         [] result.err.kind = "InferenceFailed" -> "VOICEVOX_RESULT_INFERENCE_ERROR"
         [] result.err.kind = "ExtractFullContextLabel" -> "VOICEVOX_RESULT_EXTRACT_FULL_CONTEXT_LABEL_ERROR"
         [] result.err.kind = "UnloadedModel" -> "VOICEVOX_RESULT_INVALID_STYLE_ID_ERROR"
         [] result.err.kind = "ParseKana" -> "VOICEVOX_RESULT_PARSE_KANA_ERROR"
         [] result.err.kind = "LoadUserDict" -> "VOICEVOX_RESULT_LOAD_USER_DICT_ERROR"
         [] result.err.kind = "SaveUserDict" -> "VOICEVOX_RESULT_SAVE_USER_DICT_ERROR"
         [] result.err.kind = "UnknownWord" -> "VOICEVOX_RESULT_UNKNOWN_USER_DICT_WORD_ERROR"
         [] result.err.kind = "UseUserDict" -> "VOICEVOX_RESULT_USE_USER_DICT_ERROR"
         [] result.err.kind = "InvalidWord" -> "VOICEVOX_RESULT_INVALID_USER_DICT_WORD_ERROR"

\* helpers.rs: into_result_code_with_error / into_result_code
into_result_code(result) ==
  CASE result.tag = "Ok" -> "VOICEVOX_RESULT_OK"
    [] result.tag = "InvalidUtf8Input" -> "VOICEVOX_RESULT_INVALID_UTF8_INPUT_ERROR"
    [] result.tag = "InvalidAudioQuery" -> "VOICEVOX_RESULT_INVALID_AUDIO_QUERY_ERROR"
    [] result.tag = "InvalidAccentPhrase" -> "VOICEVOX_RESULT_INVALID_ACCENT_PHRASE_ERROR"
    [] result.tag = "InvalidUuid" -> "VOICEVOX_RESULT_INVALID_UUID_ERROR"
    [] result.tag = "RustApi" ->
       CASE result.err.kind = "NotLoadedOpenjtalkDict" -> "VOICEVOX_RESULT_NOT_LOADED_OPENJTALK_DICT_ERROR"
         [] result.err.kind = "GpuSupport" -> "VOICEVOX_RESULT_GPU_SUPPORT_ERROR"
         [] result.err.kind = "LoadModel" ->
           (CASE result.err.context = "OpenZipFile" -> "VOICEVOX_RESULT_OPEN_ZIP_FILE_ERROR"
              [] result.err.context = "ReadZipEntry" -> "VOICEVOX_RESULT_READ_ZIP_ENTRY_ERROR"
              [] result.err.context = "ModelAlreadyLoaded" -> "VOICEVOX_RESULT_MODEL_ALREADY_LOADED_ERROR"
              [] result.err.context = "StyleAlreadyLoaded" -> "VOICEVOX_RESULT_STYLE_ALREADY_LOADED_ERROR"
              [] result.err.context = "InvalidModelData" -> "VOICEVOX_RESULT_INVALID_MODEL_DATA_ERROR")
         [] result.err.kind = "GetSupportedDevices" -> "VOICEVOX_RESULT_GET_SUPPORTED_DEVICES_ERROR"
         [] result.err.kind = "InvalidStyleId" -> "VOICEVOX_RESULT_INVALID_STYLE_ID_ERROR"
         [] result.err.kind = "InvalidModelId" -> "VOICEVOX_RESULT_INVALID_MODEL_ID_ERROR"
         [] result.err.kind = "InferenceFailed" -> "VOICEVOX_RESULT_INFERENCE_ERROR"
         [] result.err.kind = "ExtractFullContextLabel" -> "VOICEVOX_RESULT_EXTRACT_FULL_CONTEXT_LABEL_ERROR"
         [] result.err.kind = "UnloadedModel" -> "VOICEVOX_RESULT_UNLOADED_MODEL_ERROR"
         [] result.err.kind = "ParseKana" -> "VOICEVOX_RESULT_PARSE_KANA_ERROR"
         [] result.err.kind = "LoadUserDict" -> "VOICEVOX_RESULT_LOAD_USER_DICT_ERROR"
         [] result.err.kind = "SaveUserDict" -> "VOICEVOX_RESULT_SAVE_USER_DICT_ERROR"
         [] result.err.kind = "UnknownWord" -> "VOICEVOX_RESULT_UNKNOWN_USER_DICT_WORD_ERROR"
         [] result.err.kind = "UseUserDict" -> "VOICEVOX_RESULT_USE_USER_DICT_ERROR"
         [] result.err.kind = "InvalidWord" -> "VOICEVOX_RESULT_INVALID_USER_DICT_WORD_ERROR"

\* ------------------------------------------------------------- variables
VARIABLES
  synth,              \* "none" before new_with_initialize, then "ready" or "failed"
  new_result,         \* what new_with_initialize returned
  acceleration_mode,  \* InitializeOptions::acceleration_mode
  directml,           \* cfg(feature = "directml") of the build
  supported_devices,  \* what SupportedDevices::create() produced, once probed
  use_gpu,            \* Synthesizer::use_gpu
  core_use_gpu,       \* the use_gpu handed to InferenceCore::new_with_initialize
  dict_loaded,        \* SynthesisEngine::is_openjtalk_dict_loaded
  loaded_models,      \* registry: model id -> loaded VoiceModel
  style_index,        \* registry: style id -> owning model id
  last_op,            \* history: last successful registry operation per model id
  pc,                 \* per caller: position inside the current call
  req,                \* per caller: the current (or last) call
  res,                \* per caller: core Result of the last finished call
  result_code,        \* per caller: VoicevoxResultCode of the last finished call
  resolved,           \* per caller: the model the style lookup found
  stage,              \* per caller: the pipeline stage the call is in
  invoked             \* per caller: the stages the current (or last) call entered

vars == <<synth, new_result, acceleration_mode, directml, supported_devices,
          use_gpu, core_use_gpu, dict_loaded, loaded_models, style_index,
          last_op, pc, req, res, result_code, resolved, stage, invoked>>

config_vars == <<acceleration_mode, directml, dict_loaded>>

synth_vars == <<synth, new_result, supported_devices, use_gpu, core_use_gpu>>

registry_vars == <<loaded_models, style_index>>

\* ------------------------------------------------------ registry (spec 4.1)
EmptyModels == [id \in VoiceModelIds |-> NoModel]

EmptyIndex == [s \in StyleIds |-> NoModel]

\* is_loaded(model_id)
is_loaded_model(lm, id) == lm[id] # NoModel

\* is_style_loaded(style_id)
is_model_loaded_by_style_id(si, style_id) ==
  style_id \in StyleIds /\ si[style_id] # NoModel

\* metas(): the speaker metas of everything in the model table
core_metas(lm) ==
  UNION {ModelMetas(lm[id]) : id \in {i \in VoiceModelIds : lm[i] # NoModel}}

\* the acceptance test of load(model)
ensure_acceptable(lm, si, m) ==
  IF is_loaded_model(lm, ModelId(m))
    THEN LoadModelErr("ModelAlreadyLoaded")
  ELSE IF \E s \in ModelStyles(m) : is_model_loaded_by_style_id(si, s)
    THEN LoadModelErr("StyleAlreadyLoaded")
  ELSE Ok

\* the registry modification of load(model)
insert_models(lm, m) == [lm EXCEPT ![ModelId(m)] = m]

insert_styles(si, m) ==
  [s \in StyleIds |-> IF s \in ModelStyles(m) THEN ModelId(m) ELSE si[s]]

\* unload(model_id)
unload_model_result(lm, id) ==
  IF is_loaded_model(lm, id) THEN Ok ELSE Err("InvalidModelId")

remove_models(lm, id) == [lm EXCEPT ![id] = NoModel]

remove_styles(si, id) ==
  [s \in StyleIds |-> IF si[s] = id THEN NoModel ELSE si[s]]

\* ------------------------------------------------------- facade queries
\* Synthesizer::is_gpu_mode
is_gpu_mode == use_gpu

is_loaded_voice_model_any(voice_model_id) ==
  \E id \in VoiceModelIds : is_loaded_model(loaded_models, id)

\* Synthesizer::is_loaded_voice_model
is_loaded_voice_model(voice_model_id) ==
  is_loaded_model(loaded_models, voice_model_id)

\* Synthesizer::is_loaded_model_by_style_id
is_loaded_model_by_style_id(style_id) ==
  is_model_loaded_by_style_id(style_index, style_id)

metas_of_defaults == UNION {ModelMetas(m) : m \in DefaultModels}

\* Synthesizer::metas
metas == core_metas(loaded_models)

\* ----------------------------------------------------------- construction
AccelerationModes == {"Auto", "Cpu", "Gpu"}

Unprobed == [status |-> "unprobed", cuda |-> FALSE, dml |-> FALSE]

\* outcomes of SupportedDevices::create(): an error, or the two flags
ProbeOutcomes ==
  {[status |-> "fail", cuda |-> FALSE, dml |-> FALSE]}
    \cup {[status |-> "ok", cuda |-> c, dml |-> d] : c \in BOOLEAN, d \in BOOLEAN}

resolve_use_gpu_other_backend(mode, dml_feature, devices) ==
  CASE mode = "Auto" -> IF dml_feature THEN devices.cuda ELSE devices.dml
    [] mode = "Cpu"  -> FALSE
    [] mode = "Gpu"  -> TRUE

\* new_with_initialize: `let use_gpu = match options.acceleration_mode {..}`
resolve_use_gpu(mode, dml_feature, devices) ==
  CASE mode = "Auto" -> IF dml_feature THEN devices.dml ELSE devices.cuda
    [] mode = "Cpu"  -> FALSE
    [] mode = "Gpu"  -> TRUE

NoOp == [op |-> "none", model |-> NoModel]

NoHistory == [id \in VoiceModelIds |-> NoOp]

RECURSIVE load_all(_, _, _, _)
\* InferenceCore::new_with_initialize with load_all_models: load every default
\* model in turn; yields <<model table, style index, history>>
load_all(todo, lm, si, h) ==
  IF todo = {} THEN <<lm, si, h>>
  ELSE LET m == CHOOSE x \in todo : TRUE IN
       IF ensure_acceptable(lm, si, m) = Ok
         THEN load_all(todo \ {m}, insert_models(lm, m), insert_styles(si, m),
                       [h EXCEPT ![ModelId(m)] = [op |-> "load", model |-> m]])
         ELSE load_all(todo \ {m}, lm, si, h)

\* the registry a new InferenceCore starts with
initial_registry(load_all_models) ==
  IF load_all_models
    THEN load_all(DefaultModels, EmptyModels, EmptyIndex, NoHistory)
    ELSE <<EmptyModels, EmptyIndex, NoHistory>>

\* variant: a failed device probe is answered by running on the CPU
new_with_initialize_cpu_fallback ==
  /\ synth = "none"
  /\ \E probe \in ProbeOutcomes, load_all_models \in BOOLEAN, gpu_usable \in BOOLEAN :
       LET probed  == acceleration_mode = "Auto"
           devices == IF probed THEN probe ELSE Unprobed
           g       == IF probed /\ probe.status = "fail"
                        THEN FALSE
                        ELSE resolve_use_gpu(acceleration_mode, directml, devices)
       IN
       /\ supported_devices' = devices
       /\ core_use_gpu' = g
       /\ IF g /\ ~gpu_usable
            THEN /\ synth' = "failed"
                 /\ new_result' = Err("GpuSupport")
                 /\ UNCHANGED <<use_gpu, loaded_models, style_index, last_op>>
            ELSE LET init == initial_registry(load_all_models) IN
                 /\ synth' = "ready"
                 /\ new_result' = Ok
                 /\ use_gpu' = g
                 /\ loaded_models' = init[1]
                 /\ style_index' = init[2]
                 /\ last_op' = init[3]
  /\ UNCHANGED <<config_vars, pc, req, res, result_code, resolved, stage, invoked>>

\* Synthesizer::new_with_initialize
new_with_initialize ==
  /\ synth = "none"
  /\ \E probe \in ProbeOutcomes, load_all_models \in BOOLEAN, gpu_usable \in BOOLEAN :
       LET probed  == acceleration_mode = "Auto"
           devices == IF probed THEN probe ELSE Unprobed
       IN
       /\ supported_devices' = devices
       /\ IF probed /\ probe.status = "fail"
            THEN \* SupportedDevices::create()? returned the error
                 /\ synth' = "failed"
                 /\ new_result' = Err("GetSupportedDevices")
                 /\ UNCHANGED <<use_gpu, core_use_gpu, loaded_models, style_index, last_op>>
            ELSE LET g == resolve_use_gpu(acceleration_mode, directml, devices) IN
                 /\ core_use_gpu' = g
                 /\ IF g /\ ~gpu_usable
                      THEN \* InferenceCore::new_with_initialize(..).await? failed
                           /\ synth' = "failed"
                           /\ new_result' = Err("GpuSupport")
                           /\ UNCHANGED <<use_gpu, loaded_models, style_index, last_op>>
                      ELSE LET init == initial_registry(load_all_models) IN
                           /\ synth' = "ready"
                           /\ new_result' = Ok
                           /\ use_gpu' = g
                           /\ loaded_models' = init[1]
                           /\ style_index' = init[2]
                           /\ last_op' = init[3]
  /\ UNCHANGED <<config_vars, pc, req, res, result_code, resolved, stage, invoked>>

\* ------------------------------------------------------------ call frames
NoStyle == 0 - 1

NoReq == [op |-> "none", model |-> NoModel, id |-> NoModel, style |-> NoStyle,
          kana |-> FALSE, upspeak |-> FALSE]

PredictOps == {"predict_duration", "predict_intonation", "decode"}

\* the calls a host can make on the registry and the predict operations
RegistryRequests ==
  {[NoReq EXCEPT !.op = "load_voice_model", !.model = m, !.id = ModelId(m)] :
      m \in VoiceModels}
    \cup {[NoReq EXCEPT !.op = "unload_voice_model", !.id = id] : id \in VoiceModelIds}
    \cup {[NoReq EXCEPT !.op = op, !.style = s] : op \in PredictOps, s \in StyleIds}

\* a caller enters a method of the synthesizer; the previous outcome is dropped
Call(c, r) ==
  /\ synth = "ready"
  /\ pc[c] = "idle"
  /\ req' = [req EXCEPT ![c] = r]
  /\ pc' = [pc EXCEPT ![c] = "called"]
  /\ res' = [res EXCEPT ![c] = NoResult]
  /\ result_code' = [result_code EXCEPT ![c] = "none"]
  /\ invoked' = [invoked EXCEPT ![c] = <<>>]
  /\ UNCHANGED <<config_vars, synth_vars, registry_vars, last_op, resolved, stage>>

\* the call is suspended at an await
Suspend(c, at) ==
  /\ pc' = [pc EXCEPT ![c] = at]
  /\ UNCHANGED <<req, res, result_code>>

\* the call returns r; the C API turns it into a result code
Return(c, r) ==
  /\ pc' = [pc EXCEPT ![c] = "idle"]
  /\ req' = [req EXCEPT ![c] = NoReq]
  /\ res' = [res EXCEPT ![c] = r]
  /\ result_code' = [result_code EXCEPT ![c] = into_result_code(RustApi(r))]

\* ------------------------------------------------- load / unload (facade)
\* outcomes of reading the archive and building the three sessions
ReadOutcomes == {"Ok", "OpenZipFile", "ReadZipEntry", "InvalidModelData"}

\* variant: an error from load_model is answered by unloading the model id
load_voice_model_rollback(c) ==
  /\ pc[c] = "called"
  /\ req[c].op = "load_voice_model"
  /\ LET r == ensure_acceptable(loaded_models, style_index, req[c].model) IN
       IF r = Ok
         THEN /\ Suspend(c, "load_read")
              /\ UNCHANGED registry_vars
         ELSE /\ loaded_models' = remove_models(loaded_models, req[c].id)
              /\ style_index' = remove_styles(style_index, req[c].id)
              /\ Return(c, r)
  /\ UNCHANGED <<config_vars, synth_vars, last_op, resolved, stage, invoked>>

\* Synthesizer::load_voice_model, up to the first await inside load_model
load_voice_model(c) ==
  /\ pc[c] = "called"
  /\ req[c].op = "load_voice_model"
  /\ LET r == ensure_acceptable(loaded_models, style_index, req[c].model) IN
       IF r = Ok THEN Suspend(c, "load_read") ELSE Return(c, r)
  /\ UNCHANGED <<config_vars, synth_vars, registry_vars, last_op, resolved, stage, invoked>>

\* load_model: archive I/O and graph parsing (suspension point)
load_read(c) ==
  /\ pc[c] = "load_read"
  /\ \E outcome \in ReadOutcomes :
       IF outcome = "Ok"
         THEN Suspend(c, "load_insert")
         ELSE Return(c, LoadModelErr(outcome))
  /\ UNCHANGED <<config_vars, synth_vars, registry_vars, last_op, resolved, stage, invoked>>

\* variant: the insert trusts the look made when the call entered
load_insert_unchecked(c) ==
  /\ pc[c] = "load_insert"
  /\ LET m == req[c].model IN
     /\ loaded_models' = insert_models(loaded_models, m)
     /\ style_index' = insert_styles(style_index, m)
     /\ last_op' = [last_op EXCEPT ![ModelId(m)] = [op |-> "load", model |-> m]]
     /\ Return(c, Ok)
  /\ UNCHANGED <<config_vars, synth_vars, resolved, stage, invoked>>

\* load_model: the exclusive registry modification, then `?; Ok(())`
load_insert(c) ==
  /\ pc[c] = "load_insert"
  /\ LET m == req[c].model
         r == ensure_acceptable(loaded_models, style_index, m)
     IN
     IF r = Ok
       THEN /\ loaded_models' = insert_models(loaded_models, m)
            /\ style_index' = insert_styles(style_index, m)
            /\ last_op' = [last_op EXCEPT ![ModelId(m)] = [op |-> "load", model |-> m]]
            /\ Return(c, Ok)
       ELSE /\ UNCHANGED <<registry_vars, last_op>>
            /\ Return(c, r)
  /\ UNCHANGED <<config_vars, synth_vars, resolved, stage, invoked>>

\* Synthesizer::unload_voice_model (synchronous)
unload_voice_model(c) ==
  /\ pc[c] = "called"
  /\ req[c].op = "unload_voice_model"
  /\ LET voice_model_id == req[c].id
         r == unload_model_result(loaded_models, voice_model_id)
     IN
     IF r = Ok
       THEN /\ loaded_models' = remove_models(loaded_models, voice_model_id)
            /\ style_index' = remove_styles(style_index, voice_model_id)
            /\ last_op' = [last_op EXCEPT ![voice_model_id] = [op |-> "unload", model |-> NoModel]]
            /\ Return(c, Ok)
       ELSE /\ UNCHANGED <<registry_vars, last_op>>
            /\ Return(c, r)
  /\ UNCHANGED <<config_vars, synth_vars, resolved, stage, invoked>>

\* ------------------------------------------------------ predict operations
\* resolve, first half: the style index lookup
resolve_style(si, lm, style_id) ==
  IF is_model_loaded_by_style_id(si, style_id) THEN lm[si[style_id]] ELSE NoModel

\* resolve, second half: the owning model's sessions are still in the table
resolve_sessions(lm, m) == m # NoModel /\ lm[ModelId(m)] = m

TextOps == {"create_accent_phrases", "audio_query", "tts"}

ReplaceOps == {"replace_mora_data", "replace_phoneme_length", "replace_mora_pitch"}

\* the predict operation a call starts with when it needs no text stage
first_stage(op) ==
  CASE op \in PredictOps -> op
    [] op \in {"replace_mora_data", "replace_phoneme_length"} -> "predict_duration"
    [] op = "replace_mora_pitch" -> "predict_intonation"
    [] op = "synthesis" -> "decode"

\* inside the synthesis engine: replace_mora_data is replace_phoneme_length
\* followed by replace_mora_pitch; "done" when the engine call is complete
engine_next_stage(op, st) ==
  CASE st = "predict_duration" ->
         IF op \in {"predict_duration", "replace_phoneme_length"}
           THEN "done" ELSE "predict_intonation"
    [] st = "predict_intonation" -> "done"
    [] st = "decode" -> "done"

\* variant: tts decodes before the kana of the AudioQuery is rendered
next_stage_decode_before_kana(op, st) ==
  IF st = "create_kana"
    THEN "return"
  ELSE IF engine_next_stage(op, st) # "done"
    THEN engine_next_stage(op, st)
  ELSE IF st = "predict_intonation" /\ op = "tts"
    THEN "decode"
  ELSE IF st = "predict_intonation" /\ op = "audio_query"
    THEN "create_kana"
  ELSE IF st = "decode" /\ op = "tts"
    THEN "create_kana"
  ELSE "return"

\* what a call does after a stage succeeded: audio_query renders the kana
\* after create_accent_phrases returned; tts runs synthesis after audio_query
next_stage(op, st) ==
  IF st = "create_kana"
    THEN IF op = "tts" THEN "decode" ELSE "return"
  ELSE IF engine_next_stage(op, st) # "done"
    THEN engine_next_stage(op, st)
  ELSE IF st = "predict_intonation" /\ op \in {"audio_query", "tts"}
    THEN "create_kana"
  ELSE "return"

\* the stage succeeded: go on to the next one or return Ok
Continue(c, st) ==
  LET n == next_stage(req[c].op, st) IN
  IF n = "return"
    THEN /\ Return(c, Ok)
         /\ stage' = [stage EXCEPT ![c] = "-"]
    ELSE /\ Suspend(c, "stage")
         /\ stage' = [stage EXCEPT ![c] = n]

\* the stage failed with error e
Fail(c, e) ==
  /\ Return(c, e)
  /\ stage' = [stage EXCEPT ![c] = "-"]

\* a predict operation begins (Synthesizer::predict_duration /
\* predict_intonation / decode, or the same operation inside replace_* and
\* synthesis): the style lookup
predict(c) ==
  /\ \/ pc[c] = "called" /\ req[c].op \in PredictOps \cup ReplaceOps \cup {"synthesis"}
     \/ pc[c] = "stage" /\ stage[c] \in PredictOps
  /\ LET st == IF pc[c] = "called" THEN first_stage(req[c].op) ELSE stage[c]
         m  == resolve_style(style_index, loaded_models, req[c].style)
     IN
     /\ invoked' = [invoked EXCEPT ![c] = Append(@, st)]
     /\ IF m = NoModel
          THEN /\ Fail(c, Err("InvalidStyleId"))
               /\ UNCHANGED resolved
          ELSE /\ Suspend(c, "predict_run")
               /\ stage' = [stage EXCEPT ![c] = st]
               /\ resolved' = [resolved EXCEPT ![c] = m]
  /\ UNCHANGED <<config_vars, synth_vars, registry_vars, last_op>>

\* variant: an inference failure on the GPU switches the synthesizer to CPU
predict_run_cpu_fallback(c) ==
  /\ pc[c] = "predict_run"
  /\ IF ~resolve_sessions(loaded_models, resolved[c])
       THEN Fail(c, Err("UnloadedModel")) /\ UNCHANGED use_gpu
       ELSE \E inference_ok \in BOOLEAN :
              IF inference_ok
                THEN Continue(c, stage[c]) /\ UNCHANGED use_gpu
                ELSE Fail(c, Err("InferenceFailed")) /\ use_gpu' = FALSE
  /\ resolved' = [resolved EXCEPT ![c] = NoModel]
  /\ UNCHANGED <<config_vars, synth, new_result, supported_devices, core_use_gpu,
                 registry_vars, last_op, invoked>>

\* the session lookup and the graph execution (suspension point)
predict_run(c) ==
  /\ pc[c] = "predict_run"
  /\ IF ~resolve_sessions(loaded_models, resolved[c])
       THEN Fail(c, Err("UnloadedModel"))
       ELSE \E inference_ok \in BOOLEAN :
              IF inference_ok
                THEN Continue(c, stage[c])
                ELSE Fail(c, Err("InferenceFailed"))
  /\ resolved' = [resolved EXCEPT ![c] = NoModel]
  /\ UNCHANGED <<config_vars, synth_vars, registry_vars, last_op, invoked>>

\* ------------------------------------------------------------ text pipeline
\* the calls a host can make on the text pipeline
PipelineRequests ==
  {[NoReq EXCEPT !.op = op, !.style = s, !.kana = k] :
      op \in {"create_accent_phrases", "audio_query"}, s \in StyleIds, k \in BOOLEAN}
    \cup {[NoReq EXCEPT !.op = "tts", !.style = s, !.kana = k, !.upspeak = u] :
            s \in StyleIds, k \in BOOLEAN, u \in BOOLEAN}
    \cup {[NoReq EXCEPT !.op = "synthesis", !.style = s, !.upspeak = u] :
            s \in StyleIds, u \in BOOLEAN}
    \cup {[NoReq EXCEPT !.op = op, !.style = s] : op \in ReplaceOps, s \in StyleIds}

\* variant: only the analyzer path asks for the dictionary
create_accent_phrases_kana_unchecked(c) ==
  /\ pc[c] = "called"
  /\ req[c].op \in TextOps
  /\ IF ~req[c].kana /\ ~dict_loaded
       THEN /\ invoked' = [invoked EXCEPT ![c] = Append(@, "dict_check")]
            /\ Fail(c, Err("NotLoadedOpenjtalkDict"))
       ELSE \E text_ok \in BOOLEAN :
              LET text_stage == IF req[c].kana THEN "parse_kana" ELSE "analyze" IN
              /\ invoked' = [invoked EXCEPT ![c] = @ \o <<"dict_check", text_stage>>]
              /\ IF text_ok
                   THEN /\ Suspend(c, "stage")
                        /\ stage' = [stage EXCEPT ![c] = "predict_duration"]
                   ELSE Fail(c, Err(IF req[c].kana THEN "ParseKana"
                                                   ELSE "ExtractFullContextLabel"))
  /\ UNCHANGED <<config_vars, synth_vars, registry_vars, last_op, resolved>>

\* Synthesizer::create_accent_phrases, also as the first part of audio_query
\* and tts: the dictionary check, then parse_kana or the analyzer
create_accent_phrases(c) ==
  /\ pc[c] = "called"
  /\ req[c].op \in TextOps
  /\ IF ~dict_loaded
       THEN /\ invoked' = [invoked EXCEPT ![c] = Append(@, "dict_check")]
            /\ Fail(c, Err("NotLoadedOpenjtalkDict"))
       ELSE \E text_ok \in BOOLEAN :
              LET text_stage == IF req[c].kana THEN "parse_kana" ELSE "analyze" IN
              /\ invoked' = [invoked EXCEPT ![c] = @ \o <<"dict_check", text_stage>>]
              /\ IF text_ok
                   THEN /\ Suspend(c, "stage")
                        /\ stage' = [stage EXCEPT ![c] = "predict_duration"]
                   ELSE Fail(c, Err(IF req[c].kana THEN "ParseKana"
                                                   ELSE "ExtractFullContextLabel"))
  /\ UNCHANGED <<config_vars, synth_vars, registry_vars, last_op, resolved>>

\* Synthesizer::audio_query after create_accent_phrases returned: create_kana
\* and the AudioQueryModel
create_kana(c) ==
  /\ pc[c] = "stage"
  /\ stage[c] = "create_kana"
  /\ invoked' = [invoked EXCEPT ![c] = Append(@, "create_kana")]
  /\ Continue(c, "create_kana")
  /\ UNCHANGED <<config_vars, synth_vars, registry_vars, last_op, resolved>>

\* ---------------------------------------------------------- specification
\* before construction: the options and the build are chosen
InitNew ==
  /\ synth = "none"
  /\ new_result = NoResult
  /\ acceleration_mode \in AccelerationModes
  /\ directml \in BOOLEAN
  /\ supported_devices = Unprobed
  /\ use_gpu = FALSE
  /\ core_use_gpu = FALSE
  /\ dict_loaded \in BOOLEAN
  /\ loaded_models = EmptyModels
  /\ style_index = EmptyIndex
  /\ last_op = NoHistory
  /\ pc = [c \in Callers |-> "idle"]
  /\ req = [c \in Callers |-> NoReq]
  /\ res = [c \in Callers |-> NoResult]
  /\ result_code = [c \in Callers |-> "none"]
  /\ resolved = [c \in Callers |-> NoModel]
  /\ stage = [c \in Callers |-> "-"]
  /\ invoked = [c \in Callers |-> <<>>]

\* a synthesizer as the repository's tests construct it: acceleration_mode
\* Cpu, OpenJtalk::new_without_dic(), with or without load_all_models
Init ==
  /\ synth = "ready"
  /\ new_result = Ok
  /\ acceleration_mode = "Cpu"
  /\ directml = FALSE
  /\ supported_devices = Unprobed
  /\ use_gpu = FALSE
  /\ core_use_gpu = FALSE
  /\ dict_loaded = FALSE
  /\ \E load_all_models \in BOOLEAN :
       LET init == initial_registry(load_all_models) IN
       /\ loaded_models = init[1]
       /\ style_index = init[2]
       /\ last_op = init[3]
  /\ pc = [c \in Callers |-> "idle"]
  /\ req = [c \in Callers |-> NoReq]
  /\ res = [c \in Callers |-> NoResult]
  /\ result_code = [c \in Callers |-> "none"]
  /\ resolved = [c \in Callers |-> NoModel]
  /\ stage = [c \in Callers |-> "-"]
  /\ invoked = [c \in Callers |-> <<>>]

\* the registry and predict operations of one caller
RegistryStep(c) ==
  \/ \E r \in RegistryRequests : Call(c, r)
  \/ load_voice_model(c)
  \/ load_read(c)
  \/ load_insert(c)
  \/ unload_voice_model(c)
  \/ predict(c)
  \/ predict_run(c)

Next == \E c \in Callers : RegistryStep(c)

\* concurrent callers on one constructed synthesizer
Spec == Init /\ [][Next]_vars

\* the text pipeline operations of one caller
PipelineStep(c) ==
  \/ \E r \in PipelineRequests : Call(c, r)
  \/ create_accent_phrases(c)
  \/ predict(c)
  \/ predict_run(c)
  \/ create_kana(c)

NextSeq ==
  \/ new_with_initialize
  \/ RegistryStep("c1")
  \/ PipelineStep("c1")

\* construction followed by the calls of a single caller
SpecSeq == InitNew /\ [][NextSeq]_vars

\* ------------------------------------------ the guarded registry (spec 5)
\* the lookups on the registry
LookupOps == {"is_loaded_voice_model", "is_loaded_model_by_style_id", "metas"}

GuardRequests ==
  {[NoReq EXCEPT !.op = "load_voice_model", !.model = m, !.id = ModelId(m)] :
      m \in VoiceModels}
    \cup {[NoReq EXCEPT !.op = "unload_voice_model", !.id = id] : id \in VoiceModelIds}
    \cup {[NoReq EXCEPT !.op = "is_loaded_voice_model", !.id = id] : id \in VoiceModelIds}
    \cup {[NoReq EXCEPT !.op = "is_loaded_model_by_style_id", !.style = s] : s \in StyleIds}
    \cup {[NoReq EXCEPT !.op = "metas"]}

\* the callers inside a lookup: they hold the guard together
Readers == {c \in Callers : pc[c] = "lookup"}

\* the callers inside a modification, between its two tables: such a caller
\* holds the guard alone
Writers == {c \in Callers : pc[c] \in {"insert_styles", "remove_styles"}}

\* variant: a lookup enters while a modification is under way
lookup_begin_unguarded(c) ==
  /\ pc[c] = "called"
  /\ req[c].op \in LookupOps
  /\ Suspend(c, "lookup")
  /\ UNCHANGED <<config_vars, synth_vars, registry_vars, last_op, resolved, stage, invoked>>

\* a lookup enters: it waits for a modification to end, not for other lookups
lookup_begin(c) ==
  /\ pc[c] = "called"
  /\ req[c].op \in LookupOps
  /\ Writers = {}
  /\ Suspend(c, "lookup")
  /\ UNCHANGED <<config_vars, synth_vars, registry_vars, last_op, resolved, stage, invoked>>

\* the lookup reads the registry and returns
lookup_end(c) ==
  /\ pc[c] = "lookup"
  /\ Return(c, OkValue(CASE req[c].op = "is_loaded_voice_model" ->
                              is_loaded_voice_model(req[c].id)
                         [] req[c].op = "is_loaded_model_by_style_id" ->
                              is_loaded_model_by_style_id(req[c].style)
                         [] req[c].op = "metas" -> metas))
  /\ UNCHANGED <<config_vars, synth_vars, registry_vars, last_op, resolved, stage, invoked>>

\* load_voice_model enters: its acceptance test is a lookup
load_begin(c) ==
  /\ Writers = {}
  /\ load_voice_model(c)

\* load_model takes the guard alone, repeats the acceptance test and writes
\* the model table
insert_begin(c) ==
  /\ pc[c] = "load_insert"
  /\ Writers = {}
  /\ Readers = {}
  /\ LET r == ensure_acceptable(loaded_models, style_index, req[c].model) IN
     IF r = Ok
       THEN /\ loaded_models' = insert_models(loaded_models, req[c].model)
            /\ Suspend(c, "insert_styles")
       ELSE /\ UNCHANGED loaded_models
            /\ Return(c, r)
  /\ UNCHANGED <<config_vars, synth_vars, style_index, last_op, resolved, stage, invoked>>

\* load_model writes the style index and gives the guard back
insert_end(c) ==
  /\ pc[c] = "insert_styles"
  /\ style_index' = insert_styles(style_index, req[c].model)
  /\ last_op' = [last_op EXCEPT ![req[c].id] = [op |-> "load", model |-> req[c].model]]
  /\ Return(c, Ok)
  /\ UNCHANGED <<config_vars, synth_vars, loaded_models, resolved, stage, invoked>>

\* unload_model takes the guard alone and writes the model table
remove_begin(c) ==
  /\ pc[c] = "called"
  /\ req[c].op = "unload_voice_model"
  /\ Writers = {}
  /\ Readers = {}
  /\ LET r == unload_model_result(loaded_models, req[c].id) IN
     IF r = Ok
       THEN /\ loaded_models' = remove_models(loaded_models, req[c].id)
            /\ Suspend(c, "remove_styles")
       ELSE /\ UNCHANGED loaded_models
            /\ Return(c, r)
  /\ UNCHANGED <<config_vars, synth_vars, style_index, last_op, resolved, stage, invoked>>

\* unload_model writes the style index and gives the guard back
remove_end(c) ==
  /\ pc[c] = "remove_styles"
  /\ style_index' = remove_styles(style_index, req[c].id)
  /\ last_op' = [last_op EXCEPT ![req[c].id] = [op |-> "unload", model |-> NoModel]]
  /\ Return(c, Ok)
  /\ UNCHANGED <<config_vars, synth_vars, loaded_models, resolved, stage, invoked>>

\* where a pending load_voice_model can be abandoned: at the archive I/O and
\* while it waits for the guard
SuspensionPoints == {"load_read", "load_insert"}

\* variant: a pending load can be abandoned between its two tables as well
cancel_anywhere(c) ==
  /\ pc[c] \in SuspensionPoints \cup {"insert_styles"}
  /\ pc' = [pc EXCEPT ![c] = "idle"]
  /\ req' = [req EXCEPT ![c] = NoReq]
  /\ invoked' = [invoked EXCEPT ![c] = <<"cancelled">>]
  /\ UNCHANGED <<config_vars, synth_vars, registry_vars, last_op, res, result_code,
                 resolved, stage>>

\* the host cancels a pending load_voice_model: the call is dropped at the
\* suspension point it is at and returns nothing
cancel(c) ==
  /\ pc[c] \in SuspensionPoints
  /\ pc' = [pc EXCEPT ![c] = "idle"]
  /\ req' = [req EXCEPT ![c] = NoReq]
  /\ invoked' = [invoked EXCEPT ![c] = <<"cancelled">>]
  /\ UNCHANGED <<config_vars, synth_vars, registry_vars, last_op, res, result_code,
                 resolved, stage>>

GuardStep(c) ==
  \/ \E r \in GuardRequests : Call(c, r)
  \/ lookup_begin(c)
  \/ lookup_end(c)
  \/ load_begin(c)
  \/ load_read(c)
  \/ insert_begin(c)
  \/ insert_end(c)
  \/ remove_begin(c)
  \/ remove_end(c)
  \/ cancel(c)

NextGuard == \E c \in Callers : GuardStep(c)

\* concurrent callers on the guarded registry of one constructed synthesizer
SpecGuard == Init /\ [][NextGuard]_vars

\* ------------------------------------------------ values (spec 3 and 4.2)
\* f32 quantities are counted in thousandths: 10 is 0.01
PHONEME_LENGTH_MINIMAL == 10

\* longest phoneme vector handed to predict_duration
MaxVectorLen == 3

\* phoneme ids of the test vector of predict_duration_works
PhonemeIds == {0, 23, 30}

\* what the inference runtime does during one call: the level of the raw
\* durations it answers, and the graph whose run fails, if any
Graphs == [dur_base : {0, 5, 120},
           fails : {"none", "predict_duration", "predict_intonation", "decode"}]

\* the raw output of the duration graph at position i
raw_duration(g, i) == g.dur_base + 4 * i

\* the raw output of the intonation graph at position i
raw_f0(g, i) == 5000 + 100 * i

\* a call with its arguments and the runtime it meets
ValueReq(op, style_id, args, g) ==
  [op |-> op, model |-> NoModel, id |-> NoModel, style |-> style_id,
   kana |-> FALSE, upspeak |-> FALSE, args |-> args, graph |-> g]

\* all sequences over S of length at most n
SeqUpTo(S, n) == UNION {[1..k -> S] : k \in 0..n}

\* variant: the raw durations are returned as the graph produced them
InferenceCore_predict_duration_raw(g, phoneme_vector, style_id) ==
  IF resolve_style(style_index, loaded_models, style_id) = NoModel
    THEN Err("InvalidStyleId")
  ELSE IF g.fails = "predict_duration"
    THEN Err("InferenceFailed")
  ELSE OkValue([i \in 1..Len(phoneme_vector) |-> raw_duration(g, i)])

\* InferenceCore::predict_duration: run the duration graph of the style's
\* model, then raise every output below the floor to the floor
InferenceCore_predict_duration(g, phoneme_vector, style_id) ==
  IF resolve_style(style_index, loaded_models, style_id) = NoModel
    THEN Err("InvalidStyleId")
  ELSE IF g.fails = "predict_duration"
    THEN Err("InferenceFailed")
  ELSE OkValue([i \in 1..Len(phoneme_vector) |->
                  IF raw_duration(g, i) < PHONEME_LENGTH_MINIMAL
                    THEN PHONEME_LENGTH_MINIMAL
                    ELSE raw_duration(g, i)])

\* Synthesizer::predict_duration
Synthesizer_predict_duration(g, phoneme_vector, style_id) ==
  InferenceCore_predict_duration(g, phoneme_vector, style_id)

predict_duration_requests ==
  {ValueReq("predict_duration", s, [phoneme_vector |-> v], g) :
     s \in StyleIds, v \in SeqUpTo(PhonemeIds, MaxVectorLen), g \in Graphs}

\* the call runs to its end and returns
predict_duration(c) ==
  /\ pc[c] = "called"
  /\ req[c].op = "predict_duration"
  /\ Return(c, Synthesizer_predict_duration(req[c].graph, req[c].args.phoneme_vector,
                                            req[c].style))
  /\ invoked' = [invoked EXCEPT ![c] = <<"predict_duration">>]
  /\ UNCHANGED <<config_vars, synth_vars, registry_vars, last_op, resolved, stage>>

\* ------------------------------------------------------- decode (spec 4.2)
\* frames of silence added at each end: 0.4 s * 24000 / 256
padding_size == 38

\* samples the decode graph produces per frame
SamplesPerFrame == 256

\* longest f0 handed to decode
MaxFrames == 2

\* the two phoneme_size values decode is called with
PhonemeSizes == {1, 2}

\* f0 values of decode_works, in thousandths: silence and a voiced frame
F0Values == {0, 5905}

\* n copies of x
Repeat(x, n) == [i \in 1..n |-> x]

\* a row of the phoneme matrix with its only 1 at column index (0-based)
OneHot(phoneme_size, index) ==
  [j \in 1..phoneme_size |-> IF j = index + 1 THEN 1 ELSE 0]

\* row i of a flat row-major matrix with phoneme_size columns
Row(phoneme, phoneme_size, i) ==
  SubSeq(phoneme, (i - 1) * phoneme_size + 1, i * phoneme_size)

\* what decode feeds to the graph: f0 and the phoneme rows, both padded
decode_input(length, phoneme_size, f0, phoneme) ==
  [f0 |-> Repeat(0, padding_size) \o f0 \o Repeat(0, padding_size),
   phoneme |-> Repeat(OneHot(phoneme_size, 0), padding_size)
                 \o [i \in 1..length |-> Row(phoneme, phoneme_size, i)]
                 \o Repeat(OneHot(phoneme_size, 0), padding_size)]

\* the column of the 1 in a row (0-based)
HotIndex(row) == (CHOOSE j \in 1..Len(row) : row[j] = 1) - 1

\* the decode graph: SamplesPerFrame samples for every frame it is fed, here
\* each sample telling the f0 and the phoneme of its frame
decode_graph(input) ==
  [k \in 1..(Len(input.f0) * SamplesPerFrame) |->
     LET frame == ((k - 1) \div SamplesPerFrame) + 1
     IN input.f0[frame] + HotIndex(input.phoneme[frame])]

\* variant: the output of the graph is returned with the padding still on
InferenceCore_decode_uncropped(g, length, phoneme_size, f0, phoneme, style_id) ==
  IF resolve_style(style_index, loaded_models, style_id) = NoModel
    THEN Err("InvalidStyleId")
  ELSE IF g.fails = "decode"
    THEN Err("InferenceFailed")
  ELSE OkValue(decode_graph(decode_input(length, phoneme_size, f0, phoneme)))

\* InferenceCore::decode: pad, run the decode graph of the style's model, crop
InferenceCore_decode(g, length, phoneme_size, f0, phoneme, style_id) ==
  IF resolve_style(style_index, loaded_models, style_id) = NoModel
    THEN Err("InvalidStyleId")
  ELSE IF g.fails = "decode"
    THEN Err("InferenceFailed")
  ELSE LET output == decode_graph(decode_input(length, phoneme_size, f0, phoneme))
       IN OkValue(SubSeq(output, padding_size * SamplesPerFrame + 1,
                         Len(output) - padding_size * SamplesPerFrame))

\* Synthesizer::decode
Synthesizer_decode(g, length, phoneme_size, f0, phoneme, style_id) ==
  InferenceCore_decode(g, length, phoneme_size, f0, phoneme, style_id)

\* the flat one-hot matrix with the 1 of row i at column ids[i]
OneHotMatrix(phoneme_size, ids) ==
  [k \in 1..(Len(ids) * phoneme_size) |->
     IF ((k - 1) % phoneme_size) = ids[((k - 1) \div phoneme_size) + 1] THEN 1 ELSE 0]

\* well-formed arguments: f0 of size length, phoneme of size length * phoneme_size
decode_arguments ==
  {[length |-> Len(t[2]), phoneme_size |-> t[1], f0 |-> t[2],
    phoneme |-> OneHotMatrix(t[1], t[3])] :
     t \in {u \in PhonemeSizes \X SeqUpTo(F0Values, MaxFrames)
                                \X SeqUpTo(0..1, MaxFrames) :
              /\ Len(u[2]) = Len(u[3])
              /\ \A i \in 1..Len(u[3]) : u[3][i] < u[1]}}

decode_requests ==
  {ValueReq("decode", s, a, [dur_base |-> 0, fails |-> fl]) :
     s \in StyleIds, a \in decode_arguments, fl \in {"none", "decode"}}

\* the call runs to its end and returns
decode(c) ==
  /\ pc[c] = "called"
  /\ req[c].op = "decode"
  /\ LET a == req[c].args IN
       Return(c, Synthesizer_decode(req[c].graph, a.length, a.phoneme_size, a.f0,
                                    a.phoneme, req[c].style))
  /\ invoked' = [invoked EXCEPT ![c] = <<"decode">>]
  /\ UNCHANGED <<config_vars, synth_vars, registry_vars, last_op, resolved, stage>>

\* ------------------------------------- accent phrases and kana (spec 3, 6)
\* the marks of the AquesTalk-style notation
ACCENT_SYMBOL == "'"

UNVOICE_SYMBOL == "_"

NOPAUSE_DELIMITER == "/"

\* the ideographic comma, written here in ASCII
PAUSE_DELIMITER == ","

\* the full-width question mark, written here in ASCII
WIDE_INTERROGATION_MARK == "?"

\* Option::None of a consonant and of its length
NoConsonant == "-"

NoLength == 0 - 1

\* the moras of the model's texts: one with a consonant, from
\* audio_query_works, and one without
Kana == {"ス", "ア"}

consonant_of(k) ==
  CASE k = "ス" -> "s"
    [] k = "ア" -> NoConsonant

vowel_of(k) ==
  CASE k = "ス" -> "u"
    [] k = "ア" -> "a"

\* the devoiced form of a vowel
devoiced(v) ==
  CASE v = "a" -> "A"
    [] v = "i" -> "I"
    [] v = "u" -> "U"
    [] v = "e" -> "E"
    [] v = "o" -> "O"

UNVOICED_MORA_PHONEME_LIST == {"A", "I", "U", "E", "O"}

\* a mora as the kana parser builds it: lengths and pitch are zero
MoraModel(k, is_devoiced) ==
  [text |-> k,
   consonant |-> consonant_of(k),
   consonant_length |-> IF consonant_of(k) = NoConsonant THEN NoLength ELSE 0,
   vowel |-> IF is_devoiced THEN devoiced(vowel_of(k)) ELSE vowel_of(k),
   vowel_length |-> 0,
   pitch |-> 0]

NoMora == [text |-> "", consonant |-> NoConsonant, consonant_length |-> NoLength,
           vowel |-> "", vowel_length |-> 0, pitch |-> 0]

\* the pause_mora a comma leaves behind
PauseMora == [text |-> PAUSE_DELIMITER, consonant |-> NoConsonant, consonant_length |-> NoLength,
              vowel |-> "pau", vowel_length |-> 0, pitch |-> 0]

AccentPhraseModel(moras, accent, pause_mora, is_interrogative) ==
  [moras |-> moras, accent |-> accent, pause_mora |-> pause_mora,
   is_interrogative |-> is_interrogative]

Tokens ==
  Kana \cup {ACCENT_SYMBOL, UNVOICE_SYMBOL, NOPAUSE_DELIMITER, PAUSE_DELIMITER,
             WIDE_INTERROGATION_MARK}

\* a parse that failed, and one that produced v
Rejected == [ok |-> FALSE, value |-> <<>>]

Accepted(v) == [ok |-> TRUE, value |-> v]

\* one accent phrase of the notation, read from tokens[i] on: moras, each with
\* an optional "_" before it, and exactly one "'" after the accented mora
RECURSIVE text_to_accent_phrase(_, _, _, _)
text_to_accent_phrase(tokens, i, moras, accent) ==
  IF i > Len(tokens)
    THEN IF accent = 0 THEN Rejected
         ELSE Accepted(AccentPhraseModel(moras, accent, NoMora, FALSE))
  ELSE IF tokens[i] = ACCENT_SYMBOL
    THEN IF moras = <<>> \/ accent # 0 THEN Rejected
         ELSE text_to_accent_phrase(tokens, i + 1, moras, Len(moras))
  ELSE IF tokens[i] = UNVOICE_SYMBOL
    THEN IF i + 1 <= Len(tokens) /\ tokens[i + 1] \in Kana
           THEN text_to_accent_phrase(tokens, i + 2,
                                      Append(moras, MoraModel(tokens[i + 1], TRUE)), accent)
           ELSE Rejected
  ELSE IF tokens[i] \in Kana
    THEN text_to_accent_phrase(tokens, i + 1,
                               Append(moras, MoraModel(tokens[i], FALSE)), accent)
  ELSE Rejected

\* the phrase that ends at a delimiter or at the end of the text
phrase_of(segment, with_pause) ==
  LET is_interrogative ==
        segment # <<>> /\ segment[Len(segment)] = WIDE_INTERROGATION_MARK
      body == IF is_interrogative THEN SubSeq(segment, 1, Len(segment) - 1) ELSE segment
      parsed == text_to_accent_phrase(body, 1, <<>>, 0)
  IN IF body = <<>> \/ ~parsed.ok THEN Rejected
     ELSE Accepted([parsed.value EXCEPT
                      !.pause_mora = IF with_pause THEN PauseMora ELSE NoMora,
                      !.is_interrogative = is_interrogative])

RECURSIVE parse_kana_from(_, _, _, _)
parse_kana_from(text, i, segment, phrases) ==
  IF i > Len(text)
    THEN LET p == phrase_of(segment, FALSE) IN
         IF p.ok THEN Accepted(Append(phrases, p.value)) ELSE Rejected
  ELSE IF text[i] \in {NOPAUSE_DELIMITER, PAUSE_DELIMITER}
    THEN LET p == phrase_of(segment, text[i] = PAUSE_DELIMITER) IN
         IF p.ok THEN parse_kana_from(text, i + 1, <<>>, Append(phrases, p.value))
         ELSE Rejected
  ELSE parse_kana_from(text, i + 1, Append(segment, text[i]), phrases)

\* kana_parser::parse_kana
parse_kana(text) ==
  LET parsed == parse_kana_from(text, 1, <<>>, <<>>) IN
  IF parsed.ok THEN OkValue(parsed.value) ELSE Err("ParseKana")

\* the concatenation of a sequence of sequences
RECURSIVE Concat(_)
Concat(ss) == IF ss = <<>> THEN <<>> ELSE ss[1] \o Concat(Tail(ss))

\* variant: the mora under the accent is marked before its text
kana_of_phrase_accent_first(phrase) ==
  Concat([j \in 1..Len(phrase.moras) |->
            (IF j = phrase.accent THEN <<ACCENT_SYMBOL>> ELSE <<>>)
              \o (IF phrase.moras[j].vowel \in UNVOICED_MORA_PHONEME_LIST
                    THEN <<UNVOICE_SYMBOL>> ELSE <<>>)
              \o <<phrase.moras[j].text>>])
    \o (IF phrase.is_interrogative THEN <<WIDE_INTERROGATION_MARK>> ELSE <<>>)

\* the notation of one phrase: "_" before a devoiced mora, "'" after the
\* accented mora, the interrogation mark at the end
kana_of_phrase(phrase) ==
  Concat([j \in 1..Len(phrase.moras) |->
            (IF phrase.moras[j].vowel \in UNVOICED_MORA_PHONEME_LIST
               THEN <<UNVOICE_SYMBOL>> ELSE <<>>)
              \o <<phrase.moras[j].text>>
              \o (IF j = phrase.accent THEN <<ACCENT_SYMBOL>> ELSE <<>>)])
    \o (IF phrase.is_interrogative THEN <<WIDE_INTERROGATION_MARK>> ELSE <<>>)

\* kana_parser::create_kana
kana_parser_create_kana(accent_phrases) ==
  Concat([i \in 1..Len(accent_phrases) |->
            kana_of_phrase(accent_phrases[i])
              \o (IF i = Len(accent_phrases) THEN <<>>
                  ELSE IF accent_phrases[i].pause_mora # NoMora
                    THEN <<PAUSE_DELIMITER>>
                  ELSE <<NOPAUSE_DELIMITER>>)])

\* --------------------------------------- synthesis engine (spec 4.3, 4.4)
\* the phoneme-id table of the analyzer, for the phonemes of Kana
phoneme_id(p) ==
  CASE p = "pau" -> 0
    [] p = "A" -> 1
    [] p = "U" -> 6
    [] p = "a" -> 7
    [] p = "s" -> 35
    [] p = "u" -> 40

\* all moras in order, each phrase's pause_mora after its moras
flatten_moras(accent_phrases) ==
  Concat([i \in 1..Len(accent_phrases) |->
            accent_phrases[i].moras
              \o (IF accent_phrases[i].pause_mora # NoMora
                    THEN <<accent_phrases[i].pause_mora>> ELSE <<>>)])

\* the phonemes of a mora: the consonant where present, then the vowel
phonemes_of(mora) ==
  (IF mora.consonant # NoConsonant THEN <<mora.consonant>> ELSE <<>>) \o <<mora.vowel>>

\* the position of the vowel of the k-th mora in the phoneme sequence
RECURSIVE vowel_index(_, _)
vowel_index(moras, k) ==
  IF k = 0 THEN 0 ELSE vowel_index(moras, k - 1) + Len(phonemes_of(moras[k]))

\* the position of the first mora of phrase i among the flattened moras, less one
mora_offset(accent_phrases, i) == Len(flatten_moras(SubSeq(accent_phrases, 1, i - 1)))

\* the accent phrases built anew around moras, the flattened moras of
\* accent_phrases after their update
rebuild(accent_phrases, moras) ==
  [i \in 1..Len(accent_phrases) |->
     LET phrase == accent_phrases[i]
         first == mora_offset(accent_phrases, i)
     IN AccentPhraseModel(
          [j \in 1..Len(phrase.moras) |-> moras[first + j]],
          phrase.accent,
          IF phrase.pause_mora = NoMora THEN NoMora
          ELSE moras[first + Len(phrase.moras) + 1],
          phrase.is_interrogative)]

\* SynthesisEngine::replace_phoneme_length: flatten the moras into phonemes,
\* predict their durations, write them back as consonant and vowel lengths
SynthesisEngine_replace_phoneme_length(g, accent_phrases, style_id) ==
  LET moras == flatten_moras(accent_phrases)
      phoneme_vector ==
        Concat([k \in 1..Len(moras) |->
                  [n \in 1..Len(phonemes_of(moras[k])) |->
                     phoneme_id(phonemes_of(moras[k])[n])]])
      predicted == InferenceCore_predict_duration(g, phoneme_vector, style_id)
      update(mora, k) ==
        [mora EXCEPT
           !.consonant_length = IF mora.consonant = NoConsonant THEN NoLength
                                ELSE predicted.value[vowel_index(moras, k) - 1],
           !.vowel_length = predicted.value[vowel_index(moras, k)]]
  IN IF predicted.kind # "Ok" THEN predicted
     ELSE OkValue(rebuild(accent_phrases, [k \in 1..Len(moras) |-> update(moras[k], k)]))

\* InferenceCore::predict_intonation: one f0 for each of the length positions
InferenceCore_predict_intonation(g, length, vowel_phoneme_vector, consonant_phoneme_vector, style_id) ==
  IF resolve_style(style_index, loaded_models, style_id) = NoModel
    THEN Err("InvalidStyleId")
  ELSE IF g.fails = "predict_intonation"
    THEN Err("InferenceFailed")
  ELSE OkValue([i \in 1..length |-> raw_f0(g, i)])

\* SynthesisEngine::replace_mora_pitch: the vectors of the moras between a
\* leading and a trailing pause, one predicted pitch per mora, and pitch 0
\* for every mora with a devoiced vowel
SynthesisEngine_replace_mora_pitch(g, accent_phrases, style_id) ==
  LET moras == flatten_moras(accent_phrases)
      vowel_phoneme_vector ==
        <<0>> \o [k \in 1..Len(moras) |-> phoneme_id(moras[k].vowel)] \o <<0>>
      consonant_phoneme_vector ==
        <<0 - 1>>
          \o [k \in 1..Len(moras) |->
                IF moras[k].consonant = NoConsonant THEN 0 - 1
                ELSE phoneme_id(moras[k].consonant)]
          \o <<0 - 1>>
      predicted == InferenceCore_predict_intonation(g, Len(moras) + 2,
                     vowel_phoneme_vector, consonant_phoneme_vector, style_id)
      update(mora, k) ==
        [mora EXCEPT !.pitch = IF mora.vowel \in UNVOICED_MORA_PHONEME_LIST
                                 THEN 0 ELSE predicted.value[k + 1]]
  IN IF predicted.kind # "Ok" THEN predicted
     ELSE OkValue(rebuild(accent_phrases, [k \in 1..Len(moras) |-> update(moras[k], k)]))

\* SynthesisEngine::replace_mora_data: the lengths, then the pitches
SynthesisEngine_replace_mora_data(g, accent_phrases, style_id) ==
  LET lengths == SynthesisEngine_replace_phoneme_length(g, accent_phrases, style_id) IN
  IF lengths.kind # "Ok" THEN lengths
  ELSE SynthesisEngine_replace_mora_pitch(g, lengths.value, style_id)

\* variant: replace_mora_data forwards to the engine's replace_phoneme_length
Synthesizer_replace_mora_data_lengths_only(g, accent_phrases, style_id) ==
  SynthesisEngine_replace_phoneme_length(g, accent_phrases, style_id)

\* Synthesizer::replace_mora_data
Synthesizer_replace_mora_data(g, accent_phrases, style_id) ==
  SynthesisEngine_replace_mora_data(g, accent_phrases, style_id)

\* Synthesizer::replace_phoneme_length
Synthesizer_replace_phoneme_length(g, accent_phrases, style_id) ==
  SynthesisEngine_replace_phoneme_length(g, accent_phrases, style_id)

\* Synthesizer::replace_mora_pitch
Synthesizer_replace_mora_pitch(g, accent_phrases, style_id) ==
  SynthesisEngine_replace_mora_pitch(g, accent_phrases, style_id)

\* longest text, in tokens
MaxTokens == 5

\* the texts the kana parser accepts
KanaTexts == {t \in SeqUpTo(Tokens, MaxTokens) : parse_kana(t).kind = "Ok"}

\* lengths and pitch a caller may have left in the moras it passes
StaleValues == {0, 70}

\* accent phrases as a caller holds them: parsed, every length and pitch at x
held_accent_phrases(text, x) ==
  LET update(mora, k) ==
        [mora EXCEPT !.consonant_length = IF mora.consonant = NoConsonant
                                            THEN NoLength ELSE x,
                     !.vowel_length = x,
                     !.pitch = x]
      moras == flatten_moras(parse_kana(text).value)
  IN rebuild(parse_kana(text).value, [k \in 1..Len(moras) |-> update(moras[k], k)])

\* a style of the default model and a style of no loaded model
ValueStyles == {0, MaxStyleId}

\* no call was made yet on the constructed synthesizer; a later call would
\* start from the same registry, since no call below changes it
Fresh(c) ==
  /\ pc[c] = "idle"
  /\ res[c] = NoResult

\* a caller enters one of the three replace methods
call_replace(c) ==
  /\ Fresh(c)
  /\ \E t \in KanaTexts :
       \E op \in ReplaceOps, s \in ValueStyles, x \in StaleValues,
          g \in {h \in Graphs : h.dur_base = 5 /\ h.fails # "decode"} :
         Call(c, ValueReq(op, s, [accent_phrases |-> held_accent_phrases(t, x)], g))

\* variant: the arguments are moved into the call and gone when it returns
ReturnValue_moved(c, r) ==
  /\ pc' = [pc EXCEPT ![c] = "idle"]
  /\ res' = [res EXCEPT ![c] = r]
  /\ result_code' = [result_code EXCEPT ![c] = into_result_code(RustApi(r))]
  /\ req' = [req EXCEPT ![c] = NoReq]

\* the call returns r; the caller still holds what it passed by reference
ReturnValue(c, r) ==
  /\ pc' = [pc EXCEPT ![c] = "idle"]
  /\ res' = [res EXCEPT ![c] = r]
  /\ result_code' = [result_code EXCEPT ![c] = into_result_code(RustApi(r))]
  /\ UNCHANGED req

\* the calls run to their end and return
replace_mora_data(c) ==
  /\ pc[c] = "called"
  /\ req[c].op = "replace_mora_data"
  /\ ReturnValue(c, Synthesizer_replace_mora_data(req[c].graph,
                      req[c].args.accent_phrases, req[c].style))
  /\ invoked' = [invoked EXCEPT ![c] = <<"replace_mora_data">>]
  /\ UNCHANGED <<config_vars, synth_vars, registry_vars, last_op, resolved, stage>>

replace_phoneme_length(c) ==
  /\ pc[c] = "called"
  /\ req[c].op = "replace_phoneme_length"
  /\ ReturnValue(c, Synthesizer_replace_phoneme_length(req[c].graph,
                      req[c].args.accent_phrases, req[c].style))
  /\ invoked' = [invoked EXCEPT ![c] = <<"replace_phoneme_length">>]
  /\ UNCHANGED <<config_vars, synth_vars, registry_vars, last_op, resolved, stage>>

replace_mora_pitch(c) ==
  /\ pc[c] = "called"
  /\ req[c].op = "replace_mora_pitch"
  /\ ReturnValue(c, Synthesizer_replace_mora_pitch(req[c].graph,
                      req[c].args.accent_phrases, req[c].style))
  /\ invoked' = [invoked EXCEPT ![c] = <<"replace_mora_pitch">>]
  /\ UNCHANGED <<config_vars, synth_vars, registry_vars, last_op, resolved, stage>>

\* ------------------------------------------- text operations (spec 4.3-4.6)
\* the text analyzer, an external collaborator: here every token of Kana is
\* a mora, a comma ends a phrase with a pause, a question mark at the end of
\* a phrase makes it interrogative, the accent is on the first mora and a
\* final "ス" of a longer phrase is devoiced
analyze_phrase(segment, with_pause) ==
  LET is_interrogative ==
        segment # <<>> /\ segment[Len(segment)] = WIDE_INTERROGATION_MARK
      body == IF is_interrogative THEN SubSeq(segment, 1, Len(segment) - 1) ELSE segment
  IN IF body = <<>> \/ \E j \in 1..Len(body) : body[j] \notin Kana
       THEN Rejected
     ELSE Accepted(AccentPhraseModel(
            [j \in 1..Len(body) |->
               MoraModel(body[j], j = Len(body) /\ j > 1 /\ body[j] = "ス")],
            1,
            IF with_pause THEN PauseMora ELSE NoMora,
            is_interrogative))

RECURSIVE analyze_from(_, _, _, _)
analyze_from(text, i, segment, phrases) ==
  IF i > Len(text)
    THEN LET p == analyze_phrase(segment, FALSE) IN
         IF p.ok THEN Accepted(Append(phrases, p.value)) ELSE Rejected
  ELSE IF text[i] = PAUSE_DELIMITER
    THEN LET p == analyze_phrase(segment, TRUE) IN
         IF p.ok THEN analyze_from(text, i + 1, <<>>, Append(phrases, p.value))
         ELSE Rejected
  ELSE analyze_from(text, i + 1, Append(segment, text[i]), phrases)

\* SynthesisEngine::create_accent_phrases: the analyzer's phrases, then
\* replace_mora_data; an empty text has no phrases
SynthesisEngine_create_accent_phrases(g, text, style_id) ==
  LET analyzed == IF text = <<>> THEN Accepted(<<>>)
                  ELSE analyze_from(text, 1, <<>>, <<>>)
  IN IF ~analyzed.ok THEN Err("ExtractFullContextLabel")
     ELSE SynthesisEngine_replace_mora_data(g, analyzed.value, style_id)

\* Synthesizer::create_accent_phrases
Synthesizer_create_accent_phrases(g, text, style_id, options) ==
  IF ~dict_loaded
    THEN Err("NotLoadedOpenjtalkDict")
  ELSE IF options.kana
    THEN LET parsed == parse_kana(text) IN
         IF parsed.kind # "Ok" THEN parsed
         ELSE SynthesisEngine_replace_mora_data(g, parsed.value, style_id)
  ELSE SynthesisEngine_create_accent_phrases(g, text, style_id)

\* SynthesisEngine::DEFAULT_SAMPLING_RATE
DEFAULT_SAMPLING_RATE == 24000

\* Option<String>
Some(x) == <<x>>

\* AudioQueryModel::new, the f32 arguments in thousandths
AudioQueryModel_new(accent_phrases, speed_scale, pitch_scale, intonation_scale, volume_scale, pre_phoneme_length, post_phoneme_length, output_sampling_rate, output_stereo, kana) ==
  [accent_phrases |-> accent_phrases,
   speed_scale |-> speed_scale,
   pitch_scale |-> pitch_scale,
   intonation_scale |-> intonation_scale,
   volume_scale |-> volume_scale,
   pre_phoneme_length |-> pre_phoneme_length,
   post_phoneme_length |-> post_phoneme_length,
   output_sampling_rate |-> output_sampling_rate,
   output_stereo |-> output_stereo,
   kana |-> kana]

\* variant: the query is built without its kana
Synthesizer_audio_query_without_kana(g, text, style_id, options) ==
  LET accent_phrases ==
        Synthesizer_create_accent_phrases(g, text, style_id, [kana |-> options.kana])
  IN IF accent_phrases.kind # "Ok" THEN accent_phrases
     ELSE OkValue(AudioQueryModel_new(accent_phrases.value, 1000, 0, 1000, 1000, 100, 100,
                                      DEFAULT_SAMPLING_RATE, FALSE, <<>>))

\* Synthesizer::audio_query
Synthesizer_audio_query(g, text, style_id, options) ==
  LET accent_phrases ==
        Synthesizer_create_accent_phrases(g, text, style_id, [kana |-> options.kana])
  IN IF accent_phrases.kind # "Ok" THEN accent_phrases
     ELSE LET kana == kana_parser_create_kana(accent_phrases.value) IN
          OkValue(AudioQueryModel_new(accent_phrases.value, 1000, 0, 1000, 1000, 100, 100,
                                      DEFAULT_SAMPLING_RATE, FALSE, Some(kana)))

\* SynthesisEngine::synthesis_wave_format: the wave depends on the query, the
\* style and the upspeak flag, and is kept as that triple
SynthesisEngine_synthesis_wave_format(g, audio_query, style_id, enable_interrogative_upspeak) ==
  IF resolve_style(style_index, loaded_models, style_id) = NoModel
    THEN Err("InvalidStyleId")
  ELSE IF g.fails = "decode"
    THEN Err("InferenceFailed")
  ELSE OkValue([wav_of |-> audio_query, style_id |-> style_id,
                enable_interrogative_upspeak |-> enable_interrogative_upspeak])

\* Synthesizer::synthesis
Synthesizer_synthesis(g, audio_query, style_id, options) ==
  SynthesisEngine_synthesis_wave_format(g, audio_query, style_id,
                                        options.enable_interrogative_upspeak)

\* impl From<&TtsOptions> for AudioQueryOptions
AudioQueryOptions_from(options) == [kana |-> options.kana]

\* variant: the conversion takes the default of TtsOptions, upspeak enabled
SynthesisOptions_from_default(options) == [enable_interrogative_upspeak |-> TRUE]

\* impl From<&TtsOptions> for SynthesisOptions
SynthesisOptions_from(options) ==
  [enable_interrogative_upspeak |-> options.enable_interrogative_upspeak]

\* longest text handed to the analyzer, in tokens
MaxPlainTokens == 3

\* texts one of the two readers accepts, and the shortest texts, accepted or not
Texts ==
  KanaTexts
    \cup {t \in SeqUpTo(Tokens, MaxPlainTokens) : analyze_from(t, 1, <<>>, <<>>).ok}
    \cup SeqUpTo(Tokens, 1)

\* a runtime whose graphs all answer
NoFailure == [dur_base |-> 5, fails |-> "none"]

\* the runtimes the text operations meet
TextGraphs == {h \in Graphs : h.dur_base = 5}

\* the query audio_query makes of kana text t for style 0 when all graphs answer
Synthesizer_audio_query_of_kana(t) ==
  AudioQueryModel_new(SynthesisEngine_replace_mora_data(NoFailure, parse_kana(t).value,
                                                        0).value,
                      1000, 0, 1000, 1000, 100, 100, DEFAULT_SAMPLING_RATE, FALSE, Some(t))

\* audio queries as a caller holds them: an empty one, and those
\* audio_query makes of the shorter kana texts for style 0
held_audio_queries ==
  {AudioQueryModel_new(<<>>, 1000, 0, 1000, 1000, 100, 100, DEFAULT_SAMPLING_RATE,
                       FALSE, <<>>)}
    \cup {Synthesizer_audio_query_of_kana(t) :
            t \in {u \in SeqUpTo(Tokens, MaxPlainTokens) : parse_kana(u).kind = "Ok"}}

\* a caller enters create_accent_phrases, audio_query or tts
call_text(c) ==
  /\ Fresh(c)
  /\ \E t \in Texts :
       \E s \in ValueStyles, k \in BOOLEAN, g \in TextGraphs :
         \/ /\ g.fails # "decode"
            /\ \E op \in {"create_accent_phrases", "audio_query"} :
                 Call(c, [ValueReq(op, s, [text |-> t], g) EXCEPT !.kana = k])
         \/ \E u \in BOOLEAN :
              Call(c, [ValueReq("tts", s, [text |-> t], g) EXCEPT
                         !.kana = k, !.upspeak = u])

\* a caller enters synthesis
call_synthesis(c) ==
  /\ Fresh(c)
  /\ \E q \in held_audio_queries :
       \E s \in ValueStyles, u \in BOOLEAN,
          g \in {h \in TextGraphs : h.fails \in {"none", "decode"}} :
         Call(c, [ValueReq("synthesis", s, [audio_query |-> q], g) EXCEPT !.upspeak = u])

\* the options of a tts call
TtsOptions(r) == [kana |-> r.kana, enable_interrogative_upspeak |-> r.upspeak]

\* the calls run to their end and return
create_accent_phrases_returns(c) ==
  /\ pc[c] = "called"
  /\ req[c].op = "create_accent_phrases"
  /\ ReturnValue(c, Synthesizer_create_accent_phrases(req[c].graph, req[c].args.text,
                      req[c].style, [kana |-> req[c].kana]))
  /\ invoked' = [invoked EXCEPT ![c] = <<"create_accent_phrases">>]
  /\ UNCHANGED <<config_vars, synth_vars, registry_vars, last_op, resolved, stage>>

audio_query(c) ==
  /\ pc[c] = "called"
  /\ req[c].op = "audio_query"
  /\ ReturnValue(c, Synthesizer_audio_query(req[c].graph, req[c].args.text,
                      req[c].style, [kana |-> req[c].kana]))
  /\ invoked' = [invoked EXCEPT ![c] = <<"audio_query">>]
  /\ UNCHANGED <<config_vars, synth_vars, registry_vars, last_op, resolved, stage>>

synthesis(c) ==
  /\ pc[c] = "called"
  /\ req[c].op = "synthesis"
  /\ ReturnValue(c, Synthesizer_synthesis(req[c].graph, req[c].args.audio_query,
                      req[c].style, [enable_interrogative_upspeak |-> req[c].upspeak]))
  /\ invoked' = [invoked EXCEPT ![c] = <<"synthesis">>]
  /\ UNCHANGED <<config_vars, synth_vars, registry_vars, last_op, resolved, stage>>

\* Synthesizer::tts: audio_query with the converted options and, when it
\* succeeded, synthesis of its query with the converted options
tts(c) ==
  /\ pc[c] = "called"
  /\ req[c].op = "tts"
  /\ LET options == TtsOptions(req[c])
         audio_query_result ==
           Synthesizer_audio_query(req[c].graph, req[c].args.text, req[c].style,
                                   AudioQueryOptions_from(options))
     IN IF audio_query_result.kind # "Ok"
          THEN /\ ReturnValue(c, audio_query_result)
               /\ invoked' = [invoked EXCEPT ![c] = <<"audio_query">>]
          ELSE /\ ReturnValue(c, Synthesizer_synthesis(req[c].graph,
                                   audio_query_result.value, req[c].style,
                                   SynthesisOptions_from(options)))
               /\ invoked' = [invoked EXCEPT ![c] = <<"audio_query", "synthesis">>]
  /\ UNCHANGED <<config_vars, synth_vars, registry_vars, last_op, resolved, stage>>

\* ------------------------------------------------- specification of values
\* a synthesizer constructed with load_all_models, with or without dictionary
InitValues ==
  /\ synth = "ready"
  /\ new_result = Ok
  /\ acceleration_mode = "Cpu"
  /\ directml = FALSE
  /\ supported_devices = Unprobed
  /\ use_gpu = FALSE
  /\ core_use_gpu = FALSE
  /\ dict_loaded \in BOOLEAN
  /\ LET init == initial_registry(TRUE) IN
       /\ loaded_models = init[1]
       /\ style_index = init[2]
       /\ last_op = init[3]
  /\ pc = [c \in Callers |-> "idle"]
  /\ req = [c \in Callers |-> NoReq]
  /\ res = [c \in Callers |-> NoResult]
  /\ result_code = [c \in Callers |-> "none"]
  /\ resolved = [c \in Callers |-> NoModel]
  /\ stage = [c \in Callers |-> "-"]
  /\ invoked = [c \in Callers |-> <<>>]

\* a caller enters predict_duration or decode
call_predict(c) ==
  /\ Fresh(c)
  /\ \E r \in predict_duration_requests \cup decode_requests : Call(c, r)

NextValues ==
  \/ call_predict("c1")
  \/ call_replace("c1")
  \/ call_text("c1")
  \/ call_synthesis("c1")
  \/ predict_duration("c1")
  \/ decode("c1")
  \/ replace_mora_data("c1")
  \/ replace_phoneme_length("c1")
  \/ replace_mora_pitch("c1")
  \/ create_accent_phrases_returns("c1")
  \/ audio_query("c1")
  \/ synthesis("c1")
  \/ tts("c1")

\* one caller's calls, each with its arguments and its returned value
SpecValues == InitValues /\ [][NextValues]_vars

\* --------------------------------------------- result codes (C API helpers)
\* the voicevox_core::Error kinds into_result_code matches, the LoadModel
\* kind once per context
CoreErrorKinds ==
  {"NotLoadedOpenjtalkDict", "GpuSupport", "GetSupportedDevices", "InvalidStyleId",
   "InvalidModelId", "InferenceFailed", "ExtractFullContextLabel", "UnloadedModel",
   "ParseKana", "LoadUserDict", "SaveUserDict", "UnknownWord", "UseUserDict",
   "InvalidWord"}

LoadModelErrorKinds ==
  {"OpenZipFile", "ReadZipEntry", "ModelAlreadyLoaded", "StyleAlreadyLoaded",
   "InvalidModelData"}

CoreErrors ==
  {Err(k) : k \in CoreErrorKinds} \cup {LoadModelErr(ctx) : ctx \in LoadModelErrorKinds}

\* the CApiError kinds that do not wrap a core error
CApiErrorKinds ==
  {"InvalidUtf8Input", "InvalidAudioQuery", "InvalidAccentPhrase", "InvalidUuid"}

\* CApiResult<()>
CApiResults ==
  {RustApi(Ok)} \cup {RustApi(e) : e \in CoreErrors}
    \cup {CApiOnly(t) : t \in CApiErrorKinds}

\* VoicevoxResultCode, the values into_result_code names
VoicevoxResultCodes ==
  {"VOICEVOX_RESULT_OK", "VOICEVOX_RESULT_NOT_LOADED_OPENJTALK_DICT_ERROR",
   "VOICEVOX_RESULT_GPU_SUPPORT_ERROR", "VOICEVOX_RESULT_OPEN_ZIP_FILE_ERROR",
   "VOICEVOX_RESULT_READ_ZIP_ENTRY_ERROR", "VOICEVOX_RESULT_MODEL_ALREADY_LOADED_ERROR",
   "VOICEVOX_RESULT_STYLE_ALREADY_LOADED_ERROR", "VOICEVOX_RESULT_INVALID_MODEL_DATA_ERROR",
   "VOICEVOX_RESULT_GET_SUPPORTED_DEVICES_ERROR", "VOICEVOX_RESULT_INVALID_STYLE_ID_ERROR",
   "VOICEVOX_RESULT_INVALID_MODEL_ID_ERROR", "VOICEVOX_RESULT_INFERENCE_ERROR",
   "VOICEVOX_RESULT_EXTRACT_FULL_CONTEXT_LABEL_ERROR", "VOICEVOX_RESULT_UNLOADED_MODEL_ERROR",
   "VOICEVOX_RESULT_PARSE_KANA_ERROR", "VOICEVOX_RESULT_LOAD_USER_DICT_ERROR",
   "VOICEVOX_RESULT_SAVE_USER_DICT_ERROR", "VOICEVOX_RESULT_UNKNOWN_USER_DICT_WORD_ERROR",
   "VOICEVOX_RESULT_USE_USER_DICT_ERROR", "VOICEVOX_RESULT_INVALID_USER_DICT_WORD_ERROR",
   "VOICEVOX_RESULT_INVALID_UTF8_INPUT_ERROR", "VOICEVOX_RESULT_INVALID_AUDIO_QUERY_ERROR",
   "VOICEVOX_RESULT_INVALID_ACCENT_PHRASE_ERROR", "VOICEVOX_RESULT_INVALID_UUID_ERROR"}

\* a C API function hands the result of its body to the helper
CodeReq(result) ==
  [op |-> "into_result_code_with_error", model |-> NoModel, id |-> NoModel,
   style |-> NoStyle, kana |-> FALSE, upspeak |-> FALSE, result |-> result]

call_into_result_code(c) == \E result \in CApiResults : Call(c, CodeReq(result))

\* variant: the context of a LoadModel error is not looked at
into_result_code_with_error_no_context(c) ==
  /\ pc[c] = "called"
  /\ req[c].op = "into_result_code_with_error"
  /\ LET result == req[c].result
         flat == IF result.tag = "RustApi" /\ result.err.kind = "LoadModel"
                   THEN RustApi(LoadModelErr("InvalidModelData"))
                   ELSE result
     IN result_code' = [result_code EXCEPT ![c] = into_result_code(flat)]
  /\ pc' = [pc EXCEPT ![c] = "idle"]
  /\ UNCHANGED <<req, res, config_vars, synth_vars, registry_vars, last_op, resolved,
                 stage, invoked>>

\* helpers.rs: into_result_code_with_error; the error is displayed and the
\* code returned.  The frame keeps the argument after the return.
into_result_code_with_error(c) ==
  /\ pc[c] = "called"
  /\ req[c].op = "into_result_code_with_error"
  /\ result_code' = [result_code EXCEPT ![c] = into_result_code(req[c].result)]
  /\ pc' = [pc EXCEPT ![c] = "idle"]
  /\ UNCHANGED <<req, res, config_vars, synth_vars, registry_vars, last_op, resolved,
                 stage, invoked>>

NextCodes ==
  \E c \in Callers :
    \/ call_into_result_code(c)
    \/ into_result_code_with_error(c)

\* the C API functions of concurrent callers ending in the helper
SpecCodes == Init /\ [][NextCodes]_vars

\* ================================================================ claims
\* caller c takes a step of its current call
Steps(c) == pc'[c] # pc[c] \/ stage'[c] # stage[c] \/ invoked'[c] # invoked[c]

\* caller c's call returns in this step
Returns(c) == pc[c] # "idle" /\ pc'[c] = "idle"

LoadedIds == {id \in VoiceModelIds : last_op[id].op = "load"}

\* C1: a model id is reported loaded exactly when its last successful
\* registry operation was a load, and then every style of the model that was
\* loaded is reported loaded; before any successful operation every query is
\* false.
C1_Loaded ==
  synth = "ready" =>
    /\ \A id \in VoiceModelIds :
         /\ is_loaded_voice_model(id) <=> last_op[id].op = "load"
         /\ last_op[id].op = "load" =>
              \A s \in ModelStyles(last_op[id].model) : is_loaded_model_by_style_id(s)
    /\ (\A id \in VoiceModelIds : last_op[id].op = "none") =>
         /\ \A id \in VoiceModelIds : ~is_loaded_voice_model(id)
         /\ \A s \in StyleIds : ~is_loaded_model_by_style_id(s)

\* C1: right after a successful unload_voice_model(id) the id and every
\* style of the model that was loaded under it are reported not loaded.
C1_Unloaded ==
  \A c \in Callers :
    \A id \in VoiceModelIds, m \in VoiceModels :
      (/\ Returns(c)
       /\ req[c].op = "unload_voice_model"
       /\ req[c].id = id
       /\ last_op[id].model = m
       /\ res'[c] = Ok) =>
         /\ ~is_loaded_voice_model(id)'
         /\ \A s \in ModelStyles(m) : ~is_loaded_model_by_style_id(s)'

\* C1: both parts together
C1 == []C1_Loaded /\ [][C1_Unloaded]_vars

C1_Witness ==
  /\ \E id \in VoiceModelIds : last_op[id].op = "unload"
  /\ \E id \in VoiceModelIds :
       /\ last_op[id].op = "load"
       /\ \A s \in ModelStyles(last_op[id].model) : is_loaded_model_by_style_id(s)

\* C2: a step of load_voice_model(M) that looks at the registry while M.id
\* is loaded returns LoadModel{ModelAlreadyLoaded} (result code
\* MODEL_ALREADY_LOADED) and leaves the model table and style index as they
\* were.
C2 ==
  [][\A c \in Callers :
       (/\ Steps(c)
        /\ pc[c] \in {"called", "load_insert"}
        /\ req[c].op = "load_voice_model"
        /\ is_loaded_voice_model(req[c].id)) =>
          /\ res'[c] = LoadModelErr("ModelAlreadyLoaded")
          /\ result_code'[c] = "VOICEVOX_RESULT_MODEL_ALREADY_LOADED_ERROR"
          /\ pc'[c] = "idle"
          /\ loaded_models' = loaded_models
          /\ style_index' = style_index]_vars

C2_Witness ==
  \E c \in Callers :
    /\ res[c] = LoadModelErr("ModelAlreadyLoaded")
    /\ result_code[c] = "VOICEVOX_RESULT_MODEL_ALREADY_LOADED_ERROR"
    /\ \E id \in VoiceModelIds : is_loaded_voice_model(id)

\* some style of model m is owned by a loaded model with another id
StyleOwnedElsewhere(m) ==
  \E s \in ModelStyles(m) :
    \E id \in VoiceModelIds \ {ModelId(m)} :
      /\ is_loaded_voice_model(id)
      /\ s \in ModelStyles(loaded_models[id])

\* C3: a step of load_voice_model(M) that looks at the registry while M.id
\* is not loaded and a style of M is owned by another loaded model returns
\* LoadModel{StyleAlreadyLoaded} (result code STYLE_ALREADY_LOADED), and M is
\* not loaded afterwards.
C3 ==
  [][\A c \in Callers, m \in VoiceModels :
       (/\ Steps(c)
        /\ pc[c] \in {"called", "load_insert"}
        /\ req[c].op = "load_voice_model"
        /\ req[c].model = m
        /\ ~is_loaded_voice_model(ModelId(m))
        /\ StyleOwnedElsewhere(m)) =>
          /\ res'[c] = LoadModelErr("StyleAlreadyLoaded")
          /\ result_code'[c] = "VOICEVOX_RESULT_STYLE_ALREADY_LOADED_ERROR"
          /\ pc'[c] = "idle"
          /\ ~is_loaded_voice_model(ModelId(m))']_vars

C3_Witness ==
  \E c \in Callers :
    /\ res[c] = LoadModelErr("StyleAlreadyLoaded")
    /\ result_code[c] = "VOICEVOX_RESULT_STYLE_ALREADY_LOADED_ERROR"

\* C4: unload_voice_model(id) for an id that is not loaded, never loaded or
\* already unloaded, returns InvalidModelId (result code INVALID_MODEL_ID).
C4 ==
  [][\A c \in Callers :
       (/\ Steps(c)
        /\ pc[c] = "called"
        /\ req[c].op = "unload_voice_model"
        /\ (~is_loaded_voice_model(req[c].id) \/ last_op[req[c].id].op # "load")) =>
          /\ res'[c] = Err("InvalidModelId")
          /\ result_code'[c] = "VOICEVOX_RESULT_INVALID_MODEL_ID_ERROR"
          /\ pc'[c] = "idle"]_vars

C4_Witness ==
  \E c \in Callers :
    /\ res[c] = Err("InvalidModelId")
    /\ result_code[c] = "VOICEVOX_RESULT_INVALID_MODEL_ID_ERROR"
    /\ \E id \in VoiceModelIds : last_op[id].op = "unload"

RegistryErrors ==
  {LoadModelErr(ctx) : ctx \in {"ModelAlreadyLoaded", "StyleAlreadyLoaded",
                                "InvalidModelData", "OpenZipFile", "ReadZipEntry"}}
    \cup {Err("InvalidModelId")}

\* C5: a step of load_voice_model or unload_voice_model that does not return
\* Ok leaves the loaded ids, the style index and metas() unchanged, and the
\* errors these calls return are the six registry errors.
C5 ==
  [][\A c \in Callers :
       (/\ Steps(c)
        /\ req[c].op \in {"load_voice_model", "unload_voice_model"}
        /\ res'[c] # Ok) =>
          /\ loaded_models' = loaded_models
          /\ style_index' = style_index
          /\ metas' = metas
          /\ Returns(c) => res'[c] \in RegistryErrors]_vars

C5_Witness ==
  \E c \in Callers :
    /\ res[c] \in RegistryErrors
    /\ metas # {}

\* the style belongs to some model in the model table
StyleOfLoadedModel(style_id) ==
  \E id \in VoiceModelIds :
    /\ is_loaded_voice_model(id)
    /\ style_id \in ModelStyles(loaded_models[id])

C7 ==
  synth = "ready" =>
    metas = UNION {ModelMetas(last_op[id].model) : id \in LoadedIds}

C7_Witness ==
  /\ metas # {}
  /\ \E id \in VoiceModelIds : last_op[id].op = "unload"
  /\ \E c \in Callers : res[c] \in RegistryErrors

Range(q) == {q[i] : i \in 1..Len(q)}

\* the stages behind the dictionary check
TextAndPredictStages ==
  {"parse_kana", "analyze", "predict_duration", "predict_intonation", "decode"}

\* C8: without a loaded dictionary create_accent_phrases, audio_query and
\* tts return NotLoadedOpenjtalkDict in their first step, whatever kana and
\* style_id are, and no parser, analyzer or predict stage is entered.
C8 ==
  [][\A c \in Callers :
       (/\ Steps(c)
        /\ pc[c] = "called"
        /\ req[c].op \in TextOps
        /\ ~dict_loaded) =>
          /\ res'[c] = Err("NotLoadedOpenjtalkDict")
          /\ result_code'[c] = "VOICEVOX_RESULT_NOT_LOADED_OPENJTALK_DICT_ERROR"
          /\ pc'[c] = "idle"
          /\ Range(invoked'[c]) \cap TextAndPredictStages = {}]_vars

C8_Witness ==
  \E c \in Callers :
    /\ ~dict_loaded
    /\ res[c] = Err("NotLoadedOpenjtalkDict")
    /\ invoked[c] = <<"dict_check">>
    /\ \E s \in StyleIds : is_loaded_model_by_style_id(s)

\* C9: a constructed synthesizer reports is_gpu_mode() = FALSE for Cpu, TRUE
\* for Gpu, and for Auto the SupportedDevices flag of the build's backend
\* (dml with the directml feature, cuda without); the inference core was
\* given the same value.
C9 ==
  synth = "ready" =>
    /\ acceleration_mode = "Cpu" => ~is_gpu_mode
    /\ acceleration_mode = "Gpu" => is_gpu_mode
    /\ acceleration_mode = "Auto" =>
         /\ supported_devices.status = "ok"
         /\ is_gpu_mode = (IF directml THEN supported_devices.dml
                                       ELSE supported_devices.cuda)
    /\ core_use_gpu = is_gpu_mode

C9_Witness ==
  /\ synth = "ready"
  /\ acceleration_mode = "Auto"
  /\ supported_devices.cuda # supported_devices.dml
  /\ is_gpu_mode

\* C10: once the synthesizer is constructed no step changes is_gpu_mode().
C10 == [][synth = "ready" => is_gpu_mode' = is_gpu_mode]_vars

C10_Witness ==
  /\ synth = "ready"
  /\ is_gpu_mode
  /\ res["c1"] = Err("InferenceFailed")
  /\ "decode" \in Range(invoked["c1"])
  /\ \E id \in VoiceModelIds : last_op[id].op = "unload"

\* C11: in Auto mode a failed SupportedDevices probe makes new_with_initialize
\* return GetSupportedDevices (result code GET_SUPPORTED_DEVICES_ERROR): no
\* synthesizer is constructed and nothing falls back to the CPU; the probe is
\* made only for Auto, so with Cpu or Gpu this error cannot occur.
C11 ==
  /\ supported_devices.status = "fail"
       => /\ synth = "failed"
          /\ new_result = Err("GetSupportedDevices")
          /\ into_result_code(RustApi(new_result))
               = "VOICEVOX_RESULT_GET_SUPPORTED_DEVICES_ERROR"
          /\ loaded_models = EmptyModels
          /\ \A c \in Callers : pc[c] = "idle" /\ res[c] = NoResult
  /\ acceleration_mode # "Auto"
       => /\ supported_devices = Unprobed
          /\ new_result # Err("GetSupportedDevices")
  /\ new_result = Err("GetSupportedDevices") => supported_devices.status = "fail"

C11_Witness ==
  /\ acceleration_mode = "Auto"
  /\ supported_devices.status = "fail"
  /\ synth = "failed"
  /\ new_result = Err("GetSupportedDevices")

\* caller c's call of op returns a value in this step
ReturnsValue(c, op) ==
  /\ pc[c] = "called"
  /\ req[c].op = op
  /\ Returns(c)
  /\ res'[c].kind = "Ok"

C15 ==
  [][\A c \in Callers :
       ReturnsValue(c, "decode") =>
         LET a == req[c].args
             fed == decode_input(a.length, a.phoneme_size, a.f0, a.phoneme)
             wave == res'[c].value
         IN /\ Len(wave) = a.length * 256
            /\ Len(fed.f0) = a.length + 2 * 38
            /\ Len(fed.phoneme) = a.length + 2 * 38
            /\ \A i \in (1..38) \cup ((a.length + 39)..(a.length + 76)) :
                 /\ fed.f0[i] = 0
                 /\ fed.phoneme[i] = OneHot(a.phoneme_size, 0)
            /\ \A i \in 1..a.length :
                 /\ fed.f0[38 + i] = a.f0[i]
                 /\ fed.phoneme[38 + i] = Row(a.phoneme, a.phoneme_size, i)
            /\ wave = SubSeq(decode_graph(fed), 38 * 256 + 1, (38 + a.length) * 256)]_vars

\* a returned wave of MaxFrames frames, the first voiced and the last silent
C15_Witness ==
  /\ invoked["c1"] = <<"decode">>
  /\ res["c1"].kind = "Ok"
  /\ Len(res["c1"].value) = MaxFrames * 256
  /\ res["c1"].value[1] >= 5905
  /\ res["c1"].value[MaxFrames * 256] = 0

\* caller c's call of op has returned
Returned(c, op) ==
  /\ pc[c] = "idle"
  /\ req[c].op = op
  /\ res[c] # NoResult

\* C12: tts(text, style_id, options) returns exactly what
\* synthesis(audio_query(text, style_id, {kana: options.kana}), style_id,
\* {enable_interrogative_upspeak: options.enable_interrogative_upspeak})
\* returns, with the same style_id in both stages; when audio_query fails,
\* tts returns that error and synthesis is not invoked.
C12 ==
  \A c \in Callers :
    Returned(c, "tts") =>
      LET query == Synthesizer_audio_query(req[c].graph, req[c].args.text, req[c].style,
                                           [kana |-> req[c].kana])
      IN /\ query.kind = "Ok"
              => /\ res[c] = Synthesizer_synthesis(
                               req[c].graph, query.value, req[c].style,
                               [enable_interrogative_upspeak |-> req[c].upspeak])
                 /\ invoked[c] = <<"audio_query", "synthesis">>
         /\ query.kind # "Ok"
              => /\ res[c] = query
                 /\ invoked[c] = <<"audio_query">>

\* a tts of kana text without upspeak that returned a wave
C12_Witness ==
  /\ Returned("c1", "tts")
  /\ req["c1"].kana
  /\ ~req["c1"].upspeak
  /\ res["c1"].kind = "Ok"
  /\ res["c1"].value.wav_of.accent_phrases # <<>>

\* C13: every AudioQuery of a successful audio_query has speed_scale 1,
\* pitch_scale 0, intonation_scale 1, volume_scale 1, pre_phoneme_length and
\* post_phoneme_length 0.1, output_sampling_rate 24000, output_stereo false,
\* and a kana that is present and is create_kana of its own accent_phrases.
C13 ==
  \A c \in Callers :
    (Returned(c, "audio_query") /\ res[c].kind = "Ok") =>
      LET q == res[c].value IN
      /\ q.speed_scale = 1000
      /\ q.pitch_scale = 0
      /\ q.intonation_scale = 1000
      /\ q.volume_scale = 1000
      /\ q.pre_phoneme_length = 100
      /\ q.post_phoneme_length = 100
      /\ q.output_sampling_rate = 24000
      /\ q.output_stereo = FALSE
      /\ q.kana = <<kana_parser_create_kana(q.accent_phrases)>>

\* a query of analyzed text with a devoiced mora
C13_Witness ==
  /\ Returned("c1", "audio_query")
  /\ ~req["c1"].kana
  /\ res["c1"].kind = "Ok"
  /\ UNVOICE_SYMBOL \in Range(res["c1"].value.kana[1])

\* C16: after replace_mora_pitch, and so after replace_mora_data and
\* create_accent_phrases, every mora whose vowel is one of A, I, U, E, O has
\* pitch exactly 0.
C16 ==
  \A c \in Callers :
    (/\ \/ Returned(c, "replace_mora_pitch")
        \/ Returned(c, "replace_mora_data")
        \/ Returned(c, "create_accent_phrases")
     /\ res[c].kind = "Ok") =>
      \A i \in 1..Len(res[c].value) :
        \A j \in 1..Len(res[c].value[i].moras) :
          res[c].value[i].moras[j].vowel \in {"A", "I", "U", "E", "O"}
            => res[c].value[i].moras[j].pitch = 0

\* replace_mora_data of phrases whose devoiced mora came in with a pitch
C16_Witness ==
  /\ Returned("c1", "replace_mora_data")
  /\ res["c1"].kind = "Ok"
  /\ \E i \in 1..Len(res["c1"].value) :
       \E j, k \in 1..Len(res["c1"].value[i].moras) :
         /\ res["c1"].value[i].moras[j].vowel = "U"
         /\ req["c1"].args.accent_phrases[i].moras[j].pitch > 0
         /\ res["c1"].value[i].moras[j].pitch = 0
         /\ res["c1"].value[i].moras[k].pitch > 0

\* mora m differs from mora n in its lengths and its pitch at most
SameMora(m, n) ==
  /\ m.text = n.text
  /\ m.consonant = n.consonant
  /\ m.vowel = n.vowel
  /\ (m.consonant_length = NoLength) = (n.consonant_length = NoLength)

\* C17: replace_phoneme_length, replace_mora_pitch and replace_mora_data
\* leave the accent phrases they are given as they were, on success and on
\* error; the result is a new sequence with the same number of phrases and
\* the same moras (text, consonant, vowel, accent), lengths and pitches apart.
C17 ==
  [][\A c \in Callers :
       (pc[c] = "called" /\ req[c].op \in ReplaceOps /\ Returns(c)) =>
         /\ req'[c] = req[c]
         /\ res'[c].kind = "Ok" =>
              LET given == req[c].args.accent_phrases
                  made == res'[c].value
              IN /\ Len(made) = Len(given)
                 /\ \A i \in 1..Len(given) :
                      /\ made[i].accent = given[i].accent
                      /\ made[i].is_interrogative = given[i].is_interrogative
                      /\ SameMora(made[i].pause_mora, given[i].pause_mora)
                      /\ Len(made[i].moras) = Len(given[i].moras)
                      /\ \A j \in 1..Len(given[i].moras) :
                           SameMora(made[i].moras[j], given[i].moras[j])]_vars

\* two phrases with a pause between them came back with new lengths, and
\* the caller holds them as it passed them
C17_Witness ==
  /\ Returned("c1", "replace_phoneme_length")
  /\ res["c1"].kind = "Ok"
  /\ Len(res["c1"].value) = 2
  /\ res["c1"].value[1].pause_mora # NoMora
  /\ res["c1"].value[1].pause_mora.vowel_length
       # req["c1"].args.accent_phrases[1].pause_mora.vowel_length

\* C20: for a text the kana parser accepts, the kana of
\* audio_query(text, s, {kana: true}) is create_kana of its accent phrases
\* and is the text itself in its normal form: replacing the lengths and
\* pitches in between does not change how the phrases are written.
C20 ==
  \A c \in Callers :
    (Returned(c, "audio_query") /\ req[c].kana /\ res[c].kind = "Ok") =>
      /\ parse_kana(req[c].args.text).kind = "Ok"
      /\ res[c].value.kana = <<kana_parser_create_kana(res[c].value.accent_phrases)>>
      /\ res[c].value.kana
           = <<kana_parser_create_kana(parse_kana(req[c].args.text).value)>>
      /\ res[c].value.kana = <<req[c].args.text>>

\* a text of two phrases with a pause between them, written back as it was
C20_Witness ==
  /\ Returned("c1", "audio_query")
  /\ req["c1"].kana
  /\ res["c1"].kind = "Ok"
  /\ Len(res["c1"].value.accent_phrases) = 2
  /\ PAUSE_DELIMITER \in Range(req["c1"].args.text)
  /\ res["c1"].value.accent_phrases[1].moras[1].vowel_length > 0
  /\ res["c1"].value.kana = <<req["c1"].args.text>>

\* every loaded model has all its styles in the index, and the index names
\* no style of a model that is not loaded
RegistryWhole ==
  /\ \A id \in VoiceModelIds :
       loaded_models[id] # NoModel =>
         /\ ModelId(loaded_models[id]) = id
         /\ \A s \in ModelStyles(loaded_models[id]) : style_index[s] = id
  /\ \A s \in StyleIds :
       style_index[s] # NoModel =>
         /\ loaded_models[style_index[s]] # NoModel
         /\ s \in ModelStyles(loaded_models[style_index[s]])

\* a modification runs alone: with no other modification and with no lookup
Exclusive == \A w \in Writers : Writers = {w} /\ Readers = {}

\* the load of caller c decides at the guard: it fails with
\* ModelAlreadyLoaded exactly when the model id got loaded in the meantime
LoadRace(c) ==
  (pc[c] = "load_insert" /\ pc'[c] # "load_insert" /\ invoked'[c] # <<"cancelled">>) =>
    IF loaded_models[req[c].id] # NoModel
      THEN /\ res'[c] = LoadModelErr("ModelAlreadyLoaded")
           /\ UNCHANGED registry_vars
      ELSE res'[c] # LoadModelErr("ModelAlreadyLoaded")

C19 ==
  /\ (Writers = {} \/ Readers # {}) => RegistryWhole
  /\ \A c \in Callers :
       (pc[c] = "idle" /\ invoked[c] = <<"cancelled">>)
         => /\ res[c] = NoResult
            /\ Writers \subseteq Callers \ {c}

\* a load was cancelled while the other caller reads the registry
C19_Witness ==
  /\ invoked["c1"] = <<"cancelled">>
  /\ pc["c2"] = "lookup"
  /\ req["c2"].op = "metas"
  /\ loaded_models["m2"] # NoModel

\* the stages of one tts request, in the order of the code
TtsStages(kana) ==
  <<"dict_check", IF kana THEN "parse_kana" ELSE "analyze",
    "predict_duration", "predict_intonation", "create_kana", "decode">>

IsPrefix(p, q) == Len(p) <= Len(q) /\ SubSeq(q, 1, Len(p)) = p

\* the errors a stage can end the request with
StageErrors(st) ==
  CASE st = "dict_check" -> {Err("NotLoadedOpenjtalkDict")}
    [] st = "parse_kana" -> {Err("ParseKana")}
    [] st = "analyze" -> {Err("ExtractFullContextLabel")}
    [] st \in PredictOps ->
         {Err("InvalidStyleId"), Err("UnloadedModel"), Err("InferenceFailed")}
    [] OTHER -> {}

\* while a tts request is in flight the stages entered so far are an initial
\* part of the order, and the stage it waits for or runs is the next one
C21_Order ==
  \A c \in Callers :
    (pc[c] # "idle" /\ req[c].op = "tts") =>
      LET order == TtsStages(req[c].kana) IN
      /\ IsPrefix(invoked[c], order)
      /\ res[c] = NoResult
      /\ pc[c] = "called" => invoked[c] = <<>>
      /\ pc[c] = "stage" =>
           /\ Len(invoked[c]) \in 2..5
           /\ stage[c] = order[Len(invoked[c]) + 1]
      /\ pc[c] = "predict_run" =>
           /\ invoked[c] # <<>>
           /\ stage[c] = invoked[c][Len(invoked[c])]

\* a step of a tts request enters at most the following stages, keeps the
\* request (text, style_id, options) while it goes on, and returns Ok only
\* after all six stages, otherwise the error of the last stage entered
C21_Ends ==
  \A c \in Callers :
    (req[c].op = "tts" /\ Steps(c)) =>
      LET order == TtsStages(req[c].kana) IN
      /\ IsPrefix(invoked[c], invoked'[c])
      /\ IsPrefix(invoked'[c], order)
      /\ pc'[c] # "idle" => req'[c] = req[c] /\ res'[c] = NoResult
      /\ pc'[c] = "idle" =>
           /\ invoked'[c] # <<>>
           /\ res'[c] = Ok => invoked'[c] = order
           /\ res'[c] # Ok => res'[c] \in StageErrors(invoked'[c][Len(invoked'[c])])

\* C21: within one tts request the stages run in the order dictionary check,
\* text analysis or kana parsing, duration prediction, intonation prediction,
\* kana rendering with the AudioQuery, decode; each starts only after the
\* previous one succeeded, and an error in a stage ends the request with that
\* error before any later stage runs.
C21 == []C21_Order /\ [][C21_Ends]_vars

C21_Witness ==
  /\ res["c1"] = Ok
  /\ invoked["c1"] = TtsStages(TRUE)
  /\ result_code["c1"] = "VOICEVOX_RESULT_OK"

\* the ids of the models in the model table
LoadedModelIds == {id \in VoiceModelIds : is_loaded_model(loaded_models, id)}

\* the loaded models that list style s in their metadata
OwnersOf(s) == {id \in LoadedModelIds : s \in ModelStyles(loaded_models[id])}

\* the styles the index gives to model id
StylesOwnedBy(id) == {s \in StyleIds : style_index[s] = id}

\* every loaded model sits under its own id, the styles of two loaded models
\* are disjoint, and the index sends a style to its one owner and nothing else
C22_Unique ==
  /\ \A id \in LoadedModelIds : ModelId(loaded_models[id]) = id
  /\ \A id1, id2 \in LoadedModelIds :
       id1 # id2 =>
         ModelStyles(loaded_models[id1]) \cap ModelStyles(loaded_models[id2]) = {}
  /\ \A s \in StyleIds :
       IF is_loaded_model_by_style_id(s)
         THEN OwnersOf(s) = {style_index[s]}
         ELSE OwnersOf(s) = {}
  /\ \A id \in VoiceModelIds :
       StylesOwnedBy(id) =
         (IF id \in LoadedModelIds THEN ModelStyles(loaded_models[id]) ELSE {})

\* a model that stays loaded over a step stays the same archive with the same
\* styles; a model that becomes loaded gets the styles of its metadata
C22_Fixed ==
  \A id \in VoiceModelIds :
    /\ (id \in LoadedModelIds /\ is_loaded_model(loaded_models', id)) =>
         /\ loaded_models'[id] = loaded_models[id]
         /\ StylesOwnedBy(id)' = StylesOwnedBy(id)
    /\ (id \notin LoadedModelIds /\ is_loaded_model(loaded_models', id)) =>
         /\ StylesOwnedBy(id) = {}
         /\ StylesOwnedBy(id)' = ModelStyles(loaded_models'[id])
         /\ \E c \in Callers :
              /\ req[c].op = "load_voice_model"
              /\ req[c].model = loaded_models'[id]
              /\ res'[c] = Ok
    /\ (id \in LoadedModelIds /\ ~is_loaded_model(loaded_models', id)) =>
         StylesOwnedBy(id)' = {}

\* C22: in every registry state no two loaded models have the same model id
\* and no style id is owned by more than one loaded model, so a loaded style
\* resolves to exactly one model; the styles a loaded model owns are fixed at
\* its load and do not change until it is unloaded.
C22 == []C22_Unique /\ [][C22_Fixed]_vars

C22_Witness ==
  /\ Cardinality(LoadedModelIds) >= 2
  /\ \E s \in StyleIds : ~is_loaded_model_by_style_id(s)
  /\ \E id \in VoiceModelIds : last_op[id].op = "unload"
  /\ \E c \in Callers : res[c] = LoadModelErr("StyleAlreadyLoaded")

\* caller c's call of into_result_code_with_error has returned
Coded(c) == pc[c] = "idle" /\ req[c].op = "into_result_code_with_error"

\* C23: into_result_code_with_error maps Ok to VOICEVOX_RESULT_OK and every
\* error to another result code, and two results get the same code only when
\* they are the same kind: each core error kind, the LoadModel kind once per
\* context, and each C API error kind has a result code of its own.
C23 ==
  /\ \A c \in Callers :
       Coded(c) =>
         /\ result_code[c] \in VoicevoxResultCodes
         /\ (result_code[c] = "VOICEVOX_RESULT_OK") = (req[c].result = RustApi(Ok))
  /\ \A c, d \in Callers :
       (Coded(c) /\ Coded(d)) =>
         ((result_code[c] = result_code[d]) = (req[c].result = req[d].result))
  /\ Cardinality({into_result_code(result) : result \in CApiResults})
       = Cardinality(CoreErrorKinds) + Cardinality(LoadModelErrorKinds)
           + Cardinality(CApiErrorKinds) + 1

C23_Witness ==
  /\ Coded("c1")
  /\ Coded("c2")
  /\ req["c1"].result = RustApi(LoadModelErr("ModelAlreadyLoaded"))
  /\ req["c2"].result = CApiOnly("InvalidUuid")
  /\ result_code["c1"] = "VOICEVOX_RESULT_MODEL_ALREADY_LOADED_ERROR"
  /\ result_code["c2"] = "VOICEVOX_RESULT_INVALID_UUID_ERROR"

====
